---- MODULE Spec2Model ----
(***************************************************************************)
(* A model of the response-writing logic of github.com/monadicstack/respond *)
(* (respond.go and the error classifier).                                   *)
(*                                                                          *)
(* Go strings are modelled as sequences of atomic tokens: concatenation is  *)
(* \o and the empty string is <<>>.  An error value is its unwrap chain, a  *)
(* sequence of links, outermost first; the nil error is the empty chain.    *)
(* Every responder call is translated into the sequence of operations it    *)
(* performs on the http.ResponseWriter, in the order of the code, and the   *)
(* sink applies them as the recording writer of respond_test.go does.       *)
(***************************************************************************)
EXTENDS Integers, Sequences, FiniteSets, TLC

VARIABLES
    phase,      \* "ready": Responder constructed, nothing called; "responded": a call returned
    request,    \* Responder.request: the method of the *http.Request
    writer,     \* Responder.writer: [Headers, StatusCode, Body]
    ops,        \* the sink/stream operations the last call performed, in order
    call,       \* the last responder call and its arguments
    earlier,    \* the calls made on this Responder before the last one, with their operations
    goroutines, \* the handlers running concurrently, each with its own Responder
    sinks,      \* the sinks of the concurrent handlers
    pkg         \* the package-level variables: errorResponseUnknown

vars == <<phase, request, writer, ops, call, earlier, goroutines, sinks, pkg>>

----------------------------------------------------------------------------
(* Bounds *)

MaxChain  == 2      \* longest unwrap chain of an error
MaxErrs   == 2      \* longest variadic error list
MaxFmtLen == 3      \* longest uriFormat / redirect URL, in tokens
MaxArgs   == 2      \* most printf arguments

----------------------------------------------------------------------------
(* Strings, sequences *)

nil == <<>>

RECURSIVE SeqsUpTo(_, _)
SeqsUpTo(S, n) ==
    IF n = 0 THEN {<<>>}
    ELSE LET shorter == SeqsUpTo(S, n - 1)
         IN  shorter \cup {Append(s, e) : s \in {t \in shorter : Len(t) = n - 1}, e \in S}

RECURSIVE Concat(_)
Concat(ss) == IF ss = <<>> THEN <<>> ELSE Head(ss) \o Concat(Tail(ss))

----------------------------------------------------------------------------
(* Errors: the capability contracts and the classifier *)

Caps == {"Status", "StatusCode", "Code"}

\* http.StatusInternalServerError and the redirect codes of net/http
StatusInternalServerError == 500
StatusTemporaryRedirect   == 307
StatusPermanentRedirect   == 308
StatusOK                  == 200
StatusCreated             == 201
StatusAccepted            == 202

\* One link of an unwrap chain: its Error() text and the integers returned by
\* the capability methods its type has (DOMAIN ret is the set of those methods).
Link(msg, ret) == [msg |-> msg, ret |-> ret]

\* err.Error()
ErrorText(err) == Head(err).msg

\* fmt.Errorf(text) / errors.New(text): a single link with no capability
Errorf(text) == <<Link(text, <<>>)>>

\* errorResponse{Status, Message}
ErrorResponse(status, message) == [Status |-> status, Message |-> message]

\* errorResponse used as an error value: Error() is Message, StatusCode() is Status
errorResponseAsError(e) == <<Link(e.Message, "StatusCode" :> e.Status)>>

\* the initial value of the package variable errorResponseUnknown
errorResponseUnknown == ErrorResponse(StatusInternalServerError, <<"unknown error">>)

\* errors.As(err, &target) for target of the interface with method cap: the
\* first link of the chain, outermost first, whose type has the method; the
\* result is the chain from that link on (nil when no link matches).
RECURSIVE As(_, _)
As(err, cap) ==
    IF err = nil THEN nil
    ELSE IF cap \in DOMAIN Head(err).ret THEN err
    ELSE As(Tail(err), cap)

\* toErrorResponse as it would be with the capabilities tried in the opposite order
toErrorResponse_codeFirst(err) ==
    IF err = nil THEN pkg.errorResponseUnknown
    ELSE LET errStatus     == As(err, "Status")
             errStatusCode == As(err, "StatusCode")
             errCode       == As(err, "Code")
         IN  IF errCode # nil
                THEN ErrorResponse(Head(errCode).ret["Code"], ErrorText(errCode))
             ELSE IF errStatusCode # nil
                THEN ErrorResponse(Head(errStatusCode).ret["StatusCode"], ErrorText(errStatusCode))
             ELSE IF errStatus # nil
                THEN ErrorResponse(Head(errStatus).ret["Status"], ErrorText(errStatus))
             ELSE ErrorResponse(StatusInternalServerError, ErrorText(err))

\* toErrorResponse as it would be if an error without capability were
\* answered like the absent error
toErrorResponse_unknownFallback(err) ==
    IF err = nil THEN pkg.errorResponseUnknown
    ELSE LET errStatus     == As(err, "Status")
             errStatusCode == As(err, "StatusCode")
             errCode       == As(err, "Code")
         IN  IF errStatus # nil
                THEN ErrorResponse(Head(errStatus).ret["Status"], ErrorText(errStatus))
             ELSE IF errStatusCode # nil
                THEN ErrorResponse(Head(errStatusCode).ret["StatusCode"], ErrorText(errStatusCode))
             ELSE IF errCode # nil
                THEN ErrorResponse(Head(errCode).ret["Code"], ErrorText(errCode))
             ELSE errorResponseUnknown

\* toErrorResponse as it would be if the chain were walked once, link by link,
\* each link probed for Status, StatusCode, Code in turn
toErrorResponse_linkByLink(err) ==
    IF err = nil THEN pkg.errorResponseUnknown
    ELSE LET link == IF \E i \in 1..Len(err) : DOMAIN err[i].ret # {}
                        THEN err[CHOOSE i \in 1..Len(err) :
                                    /\ DOMAIN err[i].ret # {}
                                    /\ \A j \in 1..(i - 1) : DOMAIN err[j].ret = {}]
                        ELSE Link(ErrorText(err), "None" :> StatusInternalServerError)
             cap  == IF "Status" \in DOMAIN link.ret THEN "Status"
                     ELSE IF "StatusCode" \in DOMAIN link.ret THEN "StatusCode"
                     ELSE IF "Code" \in DOMAIN link.ret THEN "Code"
                     ELSE "None"
         IN  ErrorResponse(link.ret[cap], link.msg)

\* toErrorResponse as it would be if the message were always the one of the
\* error handed in
toErrorResponse_outerMessage(err) ==
    IF err = nil THEN pkg.errorResponseUnknown
    ELSE LET errStatus     == As(err, "Status")
             errStatusCode == As(err, "StatusCode")
             errCode       == As(err, "Code")
         IN  IF errStatus # nil
                THEN ErrorResponse(Head(errStatus).ret["Status"], ErrorText(err))
             ELSE IF errStatusCode # nil
                THEN ErrorResponse(Head(errStatusCode).ret["StatusCode"], ErrorText(err))
             ELSE IF errCode # nil
                THEN ErrorResponse(Head(errCode).ret["Code"], ErrorText(err))
             ELSE ErrorResponse(StatusInternalServerError, ErrorText(err))

\* toErrorResponse as it would be if an error without capability were
\* answered with 200
toErrorResponse_fallbackOk(err) ==
    IF err = nil THEN pkg.errorResponseUnknown
    ELSE LET errStatus     == As(err, "Status")
             errStatusCode == As(err, "StatusCode")
             errCode       == As(err, "Code")
         IN  IF errStatus # nil
                THEN ErrorResponse(Head(errStatus).ret["Status"], ErrorText(errStatus))
             ELSE IF errStatusCode # nil
                THEN ErrorResponse(Head(errStatusCode).ret["StatusCode"], ErrorText(errStatusCode))
             ELSE IF errCode # nil
                THEN ErrorResponse(Head(errCode).ret["Code"], ErrorText(errCode))
             ELSE ErrorResponse(StatusOK, ErrorText(err))

toErrorResponse(err) ==
    IF err = nil THEN pkg.errorResponseUnknown
    ELSE LET errStatus     == As(err, "Status")
             errStatusCode == As(err, "StatusCode")
             errCode       == As(err, "Code")
         IN  IF errStatus # nil
                THEN ErrorResponse(Head(errStatus).ret["Status"], ErrorText(errStatus))
             ELSE IF errStatusCode # nil
                THEN ErrorResponse(Head(errStatusCode).ret["StatusCode"], ErrorText(errStatusCode))
             ELSE IF errCode # nil
                THEN ErrorResponse(Head(errCode).ret["Code"], ErrorText(errCode))
             ELSE ErrorResponse(StatusInternalServerError, ErrorText(err))

\* firstError as it would be if the last non-nil error were kept
RECURSIVE firstError_lastWins(_)
firstError_lastWins(errs) ==
    IF errs = <<>> THEN nil
    ELSE IF firstError_lastWins(Tail(errs)) # nil THEN firstError_lastWins(Tail(errs))
    ELSE Head(errs)

RECURSIVE firstError(_)
firstError(errs) ==
    IF errs = <<>> THEN nil
    ELSE IF Head(errs) # nil THEN Head(errs)
    ELSE firstError(Tail(errs))

----------------------------------------------------------------------------
(* The sink: operations and the recording writer *)

SetHeader(name, val) == [op |-> "Set", name |-> name, val |-> val, code |-> 0]
WriteHeader(code)    == [op |-> "WriteHeader", name |-> "", val |-> <<>>, code |-> code]
Write(data)          == [op |-> "Write", name |-> "", val |-> data, code |-> 0]
Close                == [op |-> "Close", name |-> "", val |-> <<>>, code |-> 0]

\* a nil dereference: the call ends here with a panic
Panic                == [op |-> "panic", name |-> "", val |-> <<>>, code |-> 0]

newResponseWriter == [Headers |-> <<>>, StatusCode |-> 0, Body |-> <<>>]

\* the nil http.ResponseWriter and the nil *http.Request
nilWriter  == [Headers |-> <<>>, StatusCode |-> 0, Body |-> <<>>, isNil |-> TRUE]
nilRequest == "<nil>"

\* a writer on which the handler has set a Content-Type before responding
presetWriter == [newResponseWriter EXCEPT !.Headers = "Content-Type" :> <<"text/plain">>]

\* http.Header.Get
Get(h, name) == IF name \in DOMAIN h THEN h[name] ELSE <<>>

ApplyOp(w, o) ==
    CASE o.op = "Set" ->
            [w EXCEPT !.Headers = [n \in DOMAIN w.Headers \cup {o.name} |->
                                      IF n = o.name THEN o.val ELSE w.Headers[n]]]
      [] o.op = "WriteHeader" -> [w EXCEPT !.StatusCode = o.code]
      [] o.op = "Write" -> [w EXCEPT !.Body = w.Body \o o.val]
      [] OTHER -> w

RECURSIVE Apply(_, _)
Apply(w, os) == IF os = <<>> THEN w ELSE Apply(ApplyOp(w, Head(os)), Tail(os))

----------------------------------------------------------------------------
(* Go values handed to the responder *)

\* A value: its dynamic type t ("nil", "string", "struct" (an id/name struct),
\* "chan", "errorResponse", or "custom": a user type known only by the
\* interfaces in caps), with the data its methods return.
Value(t, n, s, caps, url, data, rerr, ctype, fname) ==
    [t |-> t, n |-> n, s |-> s, caps |-> caps, url |-> url, data |-> data,
     rerr |-> rerr, ctype |-> ctype, fname |-> fname]

NilValue          == Value("nil", 0, <<>>, {}, <<>>, <<>>, nil, <<>>, <<>>)
StringValue(s)    == Value("string", 0, s, {}, <<>>, <<>>, nil, <<>>, <<>>)
StructValue(n, s) == Value("struct", n, s, {}, <<>>, <<>>, nil, <<>>, <<>>)
ChanValue         == Value("chan", 0, <<>>, {}, <<>>, <<>>, nil, <<>>, <<>>)
\* the errorResponse struct as a value to marshal
errorResponseValue(e) == Value("errorResponse", e.Status, e.Message, {}, <<>>, <<>>, nil, <<>>, <<>>)
\* a user type implementing Redirector (and whatever else is in caps)
Custom(caps, url, data, rerr, ctype, fname) ==
    Value("custom", 0, <<>>, caps, url, data, rerr, ctype, fname)

\* the Export of the README: a struct with an unexported buffer and a
\* Content() method returning it (and the other Content methods in caps);
\* it is no io.Reader
Export(caps, fname) == Custom(caps, <<>>, <<"a", ",", "b">>, nil, <<>>, fname)

IsRedirector(v) == "Redirector" \in v.caps
IsReader(v)     == "Reader" \in v.caps

----------------------------------------------------------------------------
(* encoding/json *)

\* the escaping json.Marshal applies inside a string (HTML-safe by default)
jsonEscape(tok) ==
    CASE tok = "<"  -> "\\u003c"
      [] tok = "\"" -> "\\\""
      [] OTHER      -> tok

jsonString(s) == <<"\"">> \o [i \in 1..Len(s) |-> jsonEscape(s[i])] \o <<"\"">>

\* json.Marshal(value): [err, bytes]; err is nil on success
jsonMarshal(v) ==
    CASE v.t = "nil"    -> [err |-> nil, bytes |-> <<"null">>]
      [] v.t = "string" -> [err |-> nil, bytes |-> jsonString(v.s)]
      [] v.t = "struct" -> [err |-> nil,
                            bytes |-> <<"{\"id\":", ToString(v.n), ",\"name\":">>
                                      \o jsonString(v.s) \o <<"}">>]
      [] v.t = "errorResponse" ->
                           [err |-> nil,
                            bytes |-> <<"{\"status\":", ToString(v.n)>>
                                      \o (IF v.s = <<>> THEN <<>>
                                          ELSE <<",\"message\":">> \o jsonString(v.s))
                                      \o <<"}">>]
      [] v.t = "chan"   -> [err |-> Errorf(<<"json: unsupported type: chan int">>),
                            bytes |-> <<>>]
      [] OTHER          -> [err |-> nil, bytes |-> <<"{}">>]

----------------------------------------------------------------------------
(* fmt.Sprintf, for string arguments *)

\* what is appended for the arguments no verb consumed
extraArgs(a, argNum) ==
    IF argNum < Len(a)
       THEN <<"%!(EXTRA ">>
            \o Concat([i \in 1..(Len(a) - argNum) |->
                          (IF i = 1 THEN <<>> ELSE <<", ">>) \o <<"string=">> \o a[argNum + i]])
            \o <<")">>
       ELSE <<>>

RECURSIVE doPrintf(_, _, _)
doPrintf(format, a, argNum) ==
    IF format = <<>> THEN extraArgs(a, argNum)
    ELSE IF Head(format) # "%" THEN <<Head(format)>> \o doPrintf(Tail(format), a, argNum)
    ELSE IF Len(format) = 1 THEN <<"%!(NOVERB)">> \o extraArgs(a, argNum)
    ELSE LET verb == format[2]
             rest == SubSeq(format, 3, Len(format))
         IN  IF verb = "%" THEN <<"%">> \o doPrintf(rest, a, argNum)
             ELSE IF argNum >= Len(a)
                     THEN <<"%!" \o verb \o "(MISSING)">> \o doPrintf(rest, a, argNum)
             ELSE IF verb = "s"
                     THEN a[argNum + 1] \o doPrintf(rest, a, argNum + 1)
             ELSE <<"%!" \o verb \o "(string=">> \o a[argNum + 1] \o <<")">>
                  \o doPrintf(rest, a, argNum + 1)

Sprintf(format, a) == doPrintf(format, a, 0)

----------------------------------------------------------------------------
(* respond.go: the writers *)

\* http.Error(res, text, code) of net/http, as writeJSON calls it
httpError(text, code) ==
    << SetHeader("Content-Type", <<"text/plain; charset=utf-8">>),
       SetHeader("X-Content-Type-Options", <<"nosniff">>),
       WriteHeader(code),
       Write(text \o <<"\n">>) >>

\* a URL with scheme and host: its first token is one
IsAbsoluteURL(url) == url # <<>> /\ Head(url) = "https://google.com"

\* http.Redirect(w, req, url, code) of net/http, the redirect-writing
\* primitive: Location, then (for a GET without a Content-Type of its own) an
\* HTML content type, the status, and for GET a short HTML body.
\* With a nil request it dereferences the request for the path of a URL
\* without scheme and host, and for the method unless the sink has a
\* Content-Type already.
httpRedirect(w, req, url, code) ==
    LET hadCT == "Content-Type" \in DOMAIN w.Headers
    IN  IF req = nilRequest /\ ~IsAbsoluteURL(url) THEN <<Panic>>
        ELSE IF req = nilRequest /\ ~hadCT THEN <<SetHeader("Location", url), Panic>>
        ELSE <<SetHeader("Location", url)>>
             \o (IF ~hadCT /\ req \in {"GET", "HEAD"}
                    THEN <<SetHeader("Content-Type", <<"text/html; charset=utf-8">>)>> ELSE <<>>)
             \o <<WriteHeader(code)>>
             \o (IF ~hadCT /\ req = "GET"
                    THEN <<Write(<<"<a href=\"">> \o url \o <<"\">", ToString(code), "</a>.\n\n">>)>>
                    ELSE <<>>)

\* writeJSON as it would be if the status were written with no Content-Type
writeJSON_noContentType(status, value) ==
    LET m == jsonMarshal(value)
    IN  IF m.err # nil
           THEN httpError(<<"json marshal error: ">> \o ErrorText(m.err), StatusInternalServerError)
           ELSE << WriteHeader(status), Write(m.bytes) >>

\* writeJSON as it would be if the success header were set before the
\* encoding is attempted
writeJSON_headerFirst(status, value) ==
    LET m == jsonMarshal(value)
    IN  <<SetHeader("Content-Type", <<"application/json">>)>>
        \o (IF m.err # nil
               THEN httpError(<<"json marshal error: ">> \o ErrorText(m.err), StatusInternalServerError)
               ELSE << WriteHeader(status), Write(m.bytes) >>)

writeJSON(status, value) ==
    LET m == jsonMarshal(value)
    IN  IF m.err # nil
           THEN httpError(<<"json marshal error: ">> \o ErrorText(m.err), StatusInternalServerError)
           ELSE << SetHeader("Content-Type", <<"application/json">>),
                   WriteHeader(status),
                   Write(m.bytes) >>

\* rawContentType as it would be if an empty override were passed on
rawContentType_emptyAllowed(value) ==
    IF "ContentTypeSpecified" \notin value.caps THEN <<"application/octet-stream">>
    ELSE value.ctype

rawContentType(value) ==
    IF "ContentTypeSpecified" \notin value.caps THEN <<"application/octet-stream">>
    ELSE IF value.ctype = <<>> THEN <<"application/octet-stream">>
    ELSE value.ctype

rawContentDisposition(value) ==
    IF "FileNameSpecified" \notin value.caps THEN <<"inline">>
    ELSE IF value.fname = <<>> THEN <<"inline">>
    ELSE <<"attachment; filename=\"">> \o value.fname \o <<"\"">>

\* io.Copy(res, value): the bytes the reader delivers before it ends (with EOF
\* or with its error rerr) are written to the sink
ioCopy(value) == IF value.data = <<>> THEN <<>> ELSE <<Write(value.data)>>

\* writeRaw as it would be if the stream were closed only after a complete copy
writeRaw_closeOnSuccess(status, value) ==
    << SetHeader("Content-Type", rawContentType(value)),
       SetHeader("Content-Disposition", rawContentDisposition(value)),
       WriteHeader(status) >>
    \o ioCopy(value)
    \o (IF "Closer" \in value.caps /\ value.rerr = nil THEN <<Close>> ELSE <<>>)

writeRaw(status, value) ==
    << SetHeader("Content-Type", rawContentType(value)),
       SetHeader("Content-Disposition", rawContentDisposition(value)),
       WriteHeader(status) >>
    \o ioCopy(value)
    \o (IF "Closer" \in value.caps THEN <<Close>> ELSE <<>>)

----------------------------------------------------------------------------
(* respond.go: the responder operations, as the sink operations they perform *)
(* on the writer w of a Responder whose request is req                       *)

Fail(err) ==
    LET errResponse == toErrorResponse(err)
    IN  writeJSON(errResponse.Status, errorResponseValue(errResponse))

Redirect(w, req, uriFormat, args) ==
    LET uri == Sprintf(uriFormat, args)
    IN  IF uri = <<>>
           THEN Fail(Errorf(<<"unable to redirect to empty url">>))
           ELSE httpRedirect(w, req, uri, StatusTemporaryRedirect)

\* RedirectPermanent as it would be without the check for an empty URL
RedirectPermanent_noEmptyCheck(w, req, uriFormat, args) ==
    httpRedirect(w, req, Sprintf(uriFormat, args), StatusPermanentRedirect)

RedirectPermanent(w, req, uriFormat, args) ==
    LET uri == Sprintf(uriFormat, args)
    IN  IF uri = <<>>
           THEN Fail(Errorf(<<"unable to redirect to empty url">>))
           ELSE httpRedirect(w, req, uri, StatusPermanentRedirect)

\* RedirectTo as it would be if the nil redirector were checked before the error
RedirectTo_nilFirst(w, req, redirector, errs) ==
    LET err == firstError(errs)
    IN  IF redirector = NilValue
           THEN Fail(Errorf(<<"unable to redirect using nil redirector">>))
        ELSE IF err # nil THEN Fail(err)
        ELSE Redirect(w, req, redirector.url, <<>>)

RedirectTo(w, req, redirector, errs) ==
    LET err == firstError(errs)
    IN  IF err # nil THEN Fail(err)
        ELSE IF redirector = NilValue
                THEN Fail(Errorf(<<"unable to redirect using nil redirector">>))
        ELSE Redirect(w, req, redirector.url, <<>>)

RedirectPermanentTo(w, req, redirector, errs) ==
    LET err == firstError(errs)
    IN  IF err # nil THEN Fail(err)
        ELSE IF redirector = NilValue
                THEN Fail(Errorf(<<"unable to redirect using nil redirector">>))
        ELSE RedirectPermanent(w, req, redirector.url, <<>>)

\* Reply as it would be if the value were dispatched before the error is looked at
Reply_valueFirst(w, req, status, value, errs) ==
    LET err == firstError(errs)
    IN  IF IsRedirector(value) THEN Redirect(w, req, value.url, <<>>)
        ELSE IF IsReader(value) THEN writeRaw(status, value)
        ELSE IF err # nil THEN Fail(err)
        ELSE writeJSON(status, value)

\* Reply as it would be if a Redirector value were redirected with the
\* requested status
Reply_redirectWithStatus(w, req, status, value, errs) ==
    LET err == firstError(errs)
    IN  IF err # nil THEN Fail(err)
        ELSE IF IsRedirector(value)
                THEN IF Sprintf(value.url, <<>>) = <<>>
                        THEN Fail(Errorf(<<"unable to redirect to empty url">>))
                        ELSE httpRedirect(w, req, Sprintf(value.url, <<>>), status)
        ELSE IF IsReader(value) THEN writeRaw(status, value)
        ELSE writeJSON(status, value)

\* Reply as it would be if a nil sink were silently ignored
Reply_nilSinkIgnored(w, req, status, value, errs) ==
    LET err == firstError(errs)
    IN  IF w = nilWriter THEN <<>>
        ELSE IF err # nil THEN Fail(err)
        ELSE IF IsRedirector(value) THEN Redirect(w, req, value.url, <<>>)
        ELSE IF IsReader(value) THEN writeRaw(status, value)
        ELSE writeJSON(status, value)

Reply(w, req, status, value, errs) ==
    LET err == firstError(errs)
    IN  IF err # nil THEN Fail(err)
        ELSE IF IsRedirector(value) THEN Redirect(w, req, value.url, <<>>)
        ELSE IF IsReader(value) THEN writeRaw(status, value)
        ELSE writeJSON(status, value)

Ok(w, req, value, errs)       == Reply(w, req, StatusOK, value, errs)
Created(w, req, value, errs)  == Reply(w, req, StatusCreated, value, errs)
Accepted(w, req, value, errs) == Reply(w, req, StatusAccepted, value, errs)

StatusBadRequest             == 400
StatusUnauthorized           == 401
StatusForbidden              == 403
StatusNotFound               == 404
StatusMethodNotAllowed       == 405
StatusConflict               == 409
StatusGone                   == 410
StatusTooManyRequests        == 429
StatusNotImplemented         == 501
StatusBadGateway             == 502
StatusServiceUnavailable     == 503
StatusGatewayTimeout         == 504

----------------------------------------------------------------------------
(* respond.go: the named failures; msg is a printf template *)

BadRequest(msg, args) ==
    Fail(errorResponseAsError(ErrorResponse(StatusBadRequest, Sprintf(msg, args))))

Unauthorized(msg, args) ==
    Fail(errorResponseAsError(ErrorResponse(StatusUnauthorized, Sprintf(msg, args))))

Forbidden(msg, args) ==
    Fail(errorResponseAsError(ErrorResponse(StatusForbidden, Sprintf(msg, args))))

NotFound(msg, args) ==
    Fail(errorResponseAsError(ErrorResponse(StatusNotFound, Sprintf(msg, args))))

MethodNotAllowed(msg, args) ==
    Fail(errorResponseAsError(ErrorResponse(StatusMethodNotAllowed, Sprintf(msg, args))))

Conflict(msg, args) ==
    Fail(errorResponseAsError(ErrorResponse(StatusConflict, Sprintf(msg, args))))

\* Gone as it would be with the status of Conflict
Gone_conflictStatus(msg, args) ==
    Fail(errorResponseAsError(ErrorResponse(StatusConflict, Sprintf(msg, args))))

Gone(msg, args) ==
    Fail(errorResponseAsError(ErrorResponse(StatusGone, Sprintf(msg, args))))

TooManyRequests(msg, args) ==
    Fail(errorResponseAsError(ErrorResponse(StatusTooManyRequests, Sprintf(msg, args))))

InternalServerError(msg, args) ==
    Fail(errorResponseAsError(ErrorResponse(StatusInternalServerError, Sprintf(msg, args))))

NotImplemented(msg, args) ==
    Fail(errorResponseAsError(ErrorResponse(StatusNotImplemented, Sprintf(msg, args))))

BadGateway(msg, args) ==
    Fail(errorResponseAsError(ErrorResponse(StatusBadGateway, Sprintf(msg, args))))

ServiceUnavailable(msg, args) ==
    Fail(errorResponseAsError(ErrorResponse(StatusServiceUnavailable, Sprintf(msg, args))))

GatewayTimeout(msg, args) ==
    Fail(errorResponseAsError(ErrorResponse(StatusGatewayTimeout, Sprintf(msg, args))))

----------------------------------------------------------------------------
(* respond.go: HTML. A parsed template is the sequence of its nodes: text    *)
(* nodes, {{ . }} (the context value, HTML-escaped), {{ .Foo }} (a field the *)
(* string context does not have) and {{ fail }} (a template function that    *)
(* returns an error with Status() 403)                                       *)

Template(nodes) == [isNil |-> FALSE, nodes |-> nodes]
NilTemplate     == [isNil |-> TRUE, nodes |-> <<>>]

\* the escaping html/template applies to a value printed in text context
htmlEscape(tok) ==
    CASE tok = "<"  -> "&lt;"
      [] tok = "\"" -> "&#34;"
      [] OTHER      -> tok

\* the error Execute returns for {{ .Foo }} on a string: an ExecError
\* without status capability
fieldError ==
    Errorf(<<"template: HTMLTemplate:1:6: executing \"HTMLTemplate\" at <.Foo>: can't evaluate field Foo in type string">>)

\* the error Execute returns for {{ fail }}: an ExecError that wraps the
\* error the function returned
funcError ==
    << Link(<<"template: HTMLTemplate:1:3: executing \"HTMLTemplate\" at <fail>: error calling fail: bad monkey">>, <<>>),
       Link(<<"bad monkey">>, "Status" :> 403) >>

\* htmlTemplate.Execute(r.writer, ctxValue): every node is written to the
\* sink as it is evaluated; evaluation stops at the first node that fails,
\* after the output of the nodes before it has been written.
\* The result is [ops, err].
RECURSIVE Execute(_, _)
Execute(nodes, ctxValue) ==
    IF nodes = <<>> THEN [ops |-> <<>>, err |-> nil]
    ELSE IF Head(nodes) = "{{ .Foo }}" THEN [ops |-> <<>>, err |-> fieldError]
    ELSE IF Head(nodes) = "{{ fail }}" THEN [ops |-> <<>>, err |-> funcError]
    ELSE LET out  == IF Head(nodes) = "{{ . }}"
                        THEN [i \in 1..Len(ctxValue) |-> htmlEscape(ctxValue[i])]
                        ELSE <<Head(nodes)>>
             rest == Execute(Tail(nodes), ctxValue)
         IN  [ops |-> <<Write(out)>> \o rest.ops, err |-> rest.err]

\* HTML as it would be if the markup were sent as plain text
HTML_plainText(markup, errs) ==
    LET err == firstError(errs)
    IN  IF err # nil THEN Fail(err)
        ELSE << SetHeader("Content-Type", <<"text/plain; charset=utf-8">>),
                WriteHeader(StatusOK),
                Write(markup) >>

HTML(markup, errs) ==
    LET err == firstError(errs)
    IN  IF err # nil THEN Fail(err)
        ELSE << SetHeader("Content-Type", <<"text/html; charset=utf-8">>),
                WriteHeader(StatusOK),
                Write(markup) >>

\* HTMLTemplate as it would be if the error of Execute were discarded
HTMLTemplate_evalErrorIgnored(htmlTemplate, ctxValue, errs) ==
    LET err == firstError(errs)
    IN  IF err # nil THEN Fail(err)
        ELSE << SetHeader("Content-Type", <<"text/html; charset=utf-8">>),
                WriteHeader(StatusOK) >>
             \o (IF htmlTemplate.isNil THEN <<>>
                 ELSE Execute(htmlTemplate.nodes, ctxValue).ops)

HTMLTemplate(htmlTemplate, ctxValue, errs) ==
    LET err == firstError(errs)
    IN  IF err # nil THEN Fail(err)
        ELSE << SetHeader("Content-Type", <<"text/html; charset=utf-8">>),
                WriteHeader(StatusOK) >>
             \o (IF htmlTemplate.isNil THEN <<>>
                 ELSE LET x == Execute(htmlTemplate.nodes, ctxValue)
                      IN  x.ops \o (IF x.err # nil THEN Fail(x.err) ELSE <<>>))

----------------------------------------------------------------------------
(* respond.go: the responses without body *)

StatusNoContent   == 204
StatusNotModified == 304

\* NoContent as it would be if the errors were not looked at
NoContent_noErrorCheck(errs) == <<WriteHeader(StatusNoContent)>>

NoContent(errs) ==
    LET err == firstError(errs)
    IN  IF err # nil THEN Fail(err)
        ELSE <<WriteHeader(StatusNoContent)>>

NotModified(errs) ==
    LET err == firstError(errs)
    IN  IF err # nil THEN Fail(err)
        ELSE <<WriteHeader(StatusNotModified)>>

----------------------------------------------------------------------------
(* respond.go: files. A file name is a string whose "." are tokens of their *)
(* own, so that the extension is the text from the last "." token           *)

\* strings.LastIndex(s, "."): the last position of the token, 0 when absent
\* (positions count from 1 here, from 0 with -1 for absent in Go)
LastIndex(s, substr) ==
    IF \A i \in 1..Len(s) : s[i] # substr THEN 0
    ELSE CHOOSE i \in 1..Len(s) :
             s[i] = substr /\ \A j \in (i + 1)..Len(s) : s[j] # substr

\* mime.TypeByExtension: the types the tests rely on; empty for an extension
\* without a mapping
TypeByExtension(ext) ==
    CASE ext = <<".", "txt">>  -> <<"text/plain; charset=utf-8">>
      [] ext = <<".", "html">> -> <<"text/html; charset=utf-8">>
      [] ext = <<".", "jpg">>  -> <<"image/jpeg">>
      [] OTHER                 -> <<>>

\* fileNameToContentType as it would be if the extension were taken from the
\* first period of the name
fileNameToContentType_firstPeriod(fileName) ==
    IF \A i \in 1..Len(fileName) : fileName[i] # "." THEN <<"application/octet-stream">>
    ELSE LET extPeriod == CHOOSE i \in 1..Len(fileName) :
                              fileName[i] = "." /\ \A j \in 1..(i - 1) : fileName[j] # "."
             mimeType == TypeByExtension(SubSeq(fileName, extPeriod, Len(fileName)))
         IN  IF mimeType = <<>> THEN <<"application/octet-stream">>
             ELSE mimeType

fileNameToContentType(fileName) ==
    LET extPeriod == LastIndex(fileName, ".")
    IN  IF extPeriod = 0 THEN <<"application/octet-stream">>
        ELSE LET mimeType == TypeByExtension(SubSeq(fileName, extPeriod, Len(fileName)))
             IN  IF mimeType = <<>> THEN <<"application/octet-stream">>
                 ELSE mimeType

\* the error io.Copy returns: the reader's error, nil when it ended with EOF
ioCopyErr(value) == value.rerr

\* bytes.NewBuffer(data): a reader over the slice that ends with EOF; a nil
\* slice gives an empty buffer, never a nil reader
bytesNewBuffer(data) == Custom({"Reader"}, <<>>, data, nil, <<>>, <<>>)

\* Serve as it would be if the copy error were discarded, as writeRaw does
Serve_copyErrorIgnored(fileName, data, errs) ==
    LET err == firstError(errs)
    IN  IF err # nil THEN Fail(err)
        ELSE << SetHeader("Content-Type", fileNameToContentType(fileName)),
                SetHeader("Content-Disposition", <<"inline">>),
                WriteHeader(StatusOK) >>
             \o (IF data = NilValue THEN <<>> ELSE ioCopy(data))

Serve(fileName, data, errs) ==
    LET err == firstError(errs)
    IN  IF err # nil THEN Fail(err)
        ELSE << SetHeader("Content-Type", fileNameToContentType(fileName)),
                SetHeader("Content-Disposition", <<"inline">>),
                WriteHeader(StatusOK) >>
             \o (IF data = NilValue THEN <<>>
                 ELSE ioCopy(data)
                      \o (IF ioCopyErr(data) # nil THEN Fail(ioCopyErr(data)) ELSE <<>>))

ServeBytes(fileName, data, errs) == Serve(fileName, bytesNewBuffer(data), errs)

\* Download as it would be if it closed a closable stream after the copy
Download_closing(fileName, data, errs) ==
    LET err == firstError(errs)
    IN  IF err # nil THEN Fail(err)
        ELSE << SetHeader("Content-Type", fileNameToContentType(fileName)),
                SetHeader("Content-Disposition",
                          Sprintf(<<"attachment; filename=\"", "%", "s", "\"">>, <<fileName>>)),
                WriteHeader(StatusOK) >>
             \o (IF data = NilValue THEN <<>>
                 ELSE ioCopy(data)
                      \o (IF ioCopyErr(data) # nil THEN Fail(ioCopyErr(data)) ELSE <<>>)
                      \o (IF "Closer" \in data.caps THEN <<Close>> ELSE <<>>))

Download(fileName, data, errs) ==
    LET err == firstError(errs)
    IN  IF err # nil THEN Fail(err)
        ELSE << SetHeader("Content-Type", fileNameToContentType(fileName)),
                SetHeader("Content-Disposition",
                          Sprintf(<<"attachment; filename=\"", "%", "s", "\"">>, <<fileName>>)),
                WriteHeader(StatusOK) >>
             \o (IF data = NilValue THEN <<>>
                 ELSE ioCopy(data)
                      \o (IF ioCopyErr(data) # nil THEN Fail(ioCopyErr(data)) ELSE <<>>))

DownloadBytes(fileName, data, errs) == Download(fileName, bytesNewBuffer(data), errs)

----------------------------------------------------------------------------
(* The inputs *)

\* the integers a capability method returns: 4XX/5XX codes, as the
\* ErrorWithStatus/ErrorWithStatusCode/ErrorWithCode contracts document
StatusVals == {403, 404}
Msgs       == {<<>>, <<"moo">>}

Links  == {Link(m, r) : m \in Msgs, r \in UNION {[c -> StatusVals] : c \in SUBSET Caps}}
Errors == SeqsUpTo(Links, MaxChain)         \* nil included

\* the errors handed to the variadic error lists
SampleErrs ==
    { Errorf(<<"foo">>),
      <<Link(<<"moo">>, "Code" :> 401)>>,
      <<Link(<<>>, "StatusCode" :> 403)>>,
      <<Link(<<"ctx">>, <<>>), Link(<<"boo">>, "Status" :> 404)>> }
ErrLists == SeqsUpTo(SampleErrs \cup {nil}, MaxErrs)

\* errors whose capability returns an integer that is no 4XX/5XX code; the
\* methods are plain Go methods and may return any int
OffContractErrs ==
    { <<Link(<<"moo">>, "Status" :> 200)>>,
      <<Link(<<>>, "Code" :> 0)>>,
      <<Link(<<"ctx">>, <<>>), Link(<<"boo">>, "StatusCode" :> 302)>> }

FmtChars == {"/", "%", "s"}
Formats  == SeqsUpTo(FmtChars, MaxFmtLen)
ArgLists == SeqsUpTo({<<>>, <<"x">>}, MaxArgs)

ReplyStatuses == {200, 308, 404}
Requests      == {"GET", "POST"}

PlainValues ==
    { NilValue, StringValue(<<"hello">>), StringValue(<<"<", "b">>),
      StructValue(42, <<"Bob">>), ChanValue,
      Custom({"ContentTypeSpecified"}, <<>>, <<>>, nil, <<"image/jpeg">>, <<>>),
      Export({"ContentReader"}, <<>>),
      Export({"ContentReader", "ContentFileNameReader"}, <<"report", ".", "csv">>) }

\* the URL templates: the formats, and the absolute URL of the tests
URLFormats == Formats \cup {<<"https://google.com">>}

Redirectors ==
    {Custom({"Redirector"}, u, <<>>, nil, <<>>, <<>>) : u \in URLFormats}
    \cup {Custom({"Redirector", "Reader"}, u, <<"B", "C">>, nil, <<>>, <<>>) : u \in {<<>>, <<"/">>}}

Readers ==
    { v \in { Custom({"Reader"} \cup c, <<>>, d, e, ct, fn) :
                  c \in SUBSET {"Closer", "ContentTypeSpecified", "FileNameSpecified"},
                  d \in {<<>>, <<"B", "C">>},
                  e \in {nil, <<Link(<<"bad monkey">>, "Status" :> 403)>>},
                  ct \in {<<>>, <<"image/jpeg">>},
                  fn \in {<<>>, <<"a.log">>} } :
        /\ "ContentTypeSpecified" \notin v.caps => v.ctype = <<>>
        /\ "FileNameSpecified" \notin v.caps => v.fname = <<>> }

\* file names: the ones of the tests, one with two periods, one ending in a
\* period and the empty name
FileNames ==
    { <<"foo", ".", "txt">>, <<"foo", ".", "html">>, <<"foobarbaz">>,
      <<"foobarbaz", ".", "goblins">>, <<"a", ".", "txt", ".", "jpg">>,
      <<"foo", ".">>, <<>> }

\* the errors a failing read returns: badReader's, a StatusCode one without
\* message and one without any capability
ReadErrs ==
    { <<Link(<<"bad monkey">>, "Status" :> 403)>>,
      <<Link(<<>>, "StatusCode" :> 404)>>,
      Errorf(<<"unexpected EOF">>) }

\* the data argument of Serve and Download: nil, or a reader (closable or
\* not) that delivers its bytes and ends with EOF or with an error
FileStreams ==
    {NilValue}
    \cup { Custom({"Reader"} \cup c, <<>>, d, e, <<>>, <<>>) :
               c \in SUBSET {"Closer"},
               d \in {<<>>, <<"B", "C">>},
               e \in {nil} \cup ReadErrs }

\* the data argument of ServeBytes and DownloadBytes; the nil slice and the
\* empty slice are both the empty sequence
ByteSlices == {<<>>, <<"B", "C", "D">>}

\* markup handed to HTML
Markups == {<<>>, <<"<p>", "hello", "</p>">>}

\* the templates of the tests, the empty template, one that fails at once and
\* one whose function fails, and no template
Templates ==
    { NilTemplate,
      Template(<<>>),
      Template(<<"<p>", "{{ . }}", " is ", "{{ . }}", "</p>">>),
      Template(<<"<p>", "{{ .Foo }}", " is ", "{{ . }}", "</p>">>),
      Template(<<"{{ .Foo }}">>),
      Template(<<"<p>", "{{ . }}", "{{ fail }}">>) }

\* the context values: strings
Contexts == {<<"Bob">>, <<"<", "b">>}

Values == PlainValues \cup Redirectors \cup Readers

----------------------------------------------------------------------------
(* The state machine: To(w, req), then one responder call *)

Call(op, status, value, errs, format, args) ==
    [op |-> op, status |-> status, value |-> value, errs |-> errs,
     format |-> format, args |-> args, fileName |-> <<>>,
     markup |-> <<>>, htmlTemplate |-> NilTemplate]

\* a call of a file entry point
FileCall(op, fileName, data, errs) ==
    [Call(op, 0, data, errs, <<>>, <<>>) EXCEPT !.fileName = fileName]

NoCall == Call("", 0, NilValue, <<>>, <<>>, <<>>)

\* the package as loaded, and no concurrent handlers
Loaded ==
    /\ pkg = [errorResponseUnknown |-> errorResponseUnknown]
    /\ goroutines = <<>>
    /\ sinks = <<>>

Init ==
    /\ phase = "ready"
    /\ request \in Requests
    /\ writer = newResponseWriter
    /\ ops = <<>>
    /\ call = NoCall
    /\ earlier = <<>>
    /\ Loaded

\* respond.To(newResponseWriter(), req)
To ==
    /\ phase = "responded"
    /\ phase' = "ready"
    /\ request' \in Requests
    /\ writer' = newResponseWriter
    /\ ops' = <<>>
    /\ call' = NoCall
    /\ earlier' = <<>>
    /\ UNCHANGED <<goroutines, sinks, pkg>>

\* the call panics: it dereferences a nil request, or operates on a nil sink
Panics(w, os) ==
    \E i \in 1..Len(os) :
        \/ os[i] = Panic
        \/ w = nilWriter /\ os[i].op \in {"Set", "WriteHeader", "Write"}

\* the operations performed: all of them, or those before the panic and then
\* the deferred Close, which runs while the panic unwinds
Performed(w, os) ==
    IF ~Panics(w, os) THEN os
    ELSE LET k == CHOOSE i \in 1..Len(os) :
                      /\ os[i] = Panic \/ (w = nilWriter /\ os[i].op \in {"Set", "WriteHeader", "Write"})
                      /\ \A j \in 1..(i - 1) :
                             ~(os[j] = Panic \/ (w = nilWriter /\ os[j].op \in {"Set", "WriteHeader", "Write"}))
         IN  SubSeq(os, 1, k - 1)
             \o SelectSeq(SubSeq(os, k + 1, Len(os)), LAMBDA o : o = Close)

Responds(c, os) ==
    /\ phase' = (IF Panics(writer, os) THEN "panicked" ELSE "responded")
    /\ ops' = Performed(writer, os)
    /\ writer' = (IF writer = nilWriter THEN writer ELSE Apply(writer, Performed(writer, os)))
    /\ call' = c
    /\ UNCHANGED <<request, earlier, goroutines, sinks, pkg>>

CallReply ==
    /\ phase = "ready"
    /\ \E status \in ReplyStatuses, value \in Values, errs \in ErrLists :
           Responds(Call("Reply", status, value, errs, <<>>, <<>>),
                    Reply(writer, request, status, value, errs))

CallOk ==
    /\ phase = "ready"
    /\ \E value \in Values, errs \in ErrLists :
           Responds(Call("Ok", StatusOK, value, errs, <<>>, <<>>),
                    Ok(writer, request, value, errs))

CallCreated ==
    /\ phase = "ready"
    /\ \E value \in Values, errs \in ErrLists :
           Responds(Call("Created", StatusCreated, value, errs, <<>>, <<>>),
                    Created(writer, request, value, errs))

CallAccepted ==
    /\ phase = "ready"
    /\ \E value \in Values, errs \in ErrLists :
           Responds(Call("Accepted", StatusAccepted, value, errs, <<>>, <<>>),
                    Accepted(writer, request, value, errs))

\* Fail(err): the error is recorded as the one-element list <<err>>
CallFail ==
    /\ phase = "ready"
    /\ \E err \in Errors \cup OffContractErrs :
           Responds(Call("Fail", 0, NilValue, <<err>>, <<>>, <<>>), Fail(err))

CallRedirect ==
    /\ phase = "ready"
    /\ \E uriFormat \in URLFormats, args \in ArgLists :
           Responds(Call("Redirect", 0, NilValue, <<>>, uriFormat, args),
                    Redirect(writer, request, uriFormat, args))

CallRedirectPermanent ==
    /\ phase = "ready"
    /\ \E uriFormat \in URLFormats, args \in ArgLists :
           Responds(Call("RedirectPermanent", 0, NilValue, <<>>, uriFormat, args),
                    RedirectPermanent(writer, request, uriFormat, args))

CallRedirectTo ==
    /\ phase = "ready"
    /\ \E redirector \in Redirectors \cup {NilValue}, errs \in ErrLists :
           Responds(Call("RedirectTo", 0, redirector, errs, <<>>, <<>>),
                    RedirectTo(writer, request, redirector, errs))

CallRedirectPermanentTo ==
    /\ phase = "ready"
    /\ \E redirector \in Redirectors \cup {NilValue}, errs \in ErrLists :
           Responds(Call("RedirectPermanentTo", 0, redirector, errs, <<>>, <<>>),
                    RedirectPermanentTo(writer, request, redirector, errs))

CallServe ==
    /\ phase = "ready"
    /\ \E fileName \in FileNames, data \in FileStreams, errs \in ErrLists :
           Responds(FileCall("Serve", fileName, data, errs), Serve(fileName, data, errs))

\* the slice is recorded as the buffer made of it
CallServeBytes ==
    /\ phase = "ready"
    /\ \E fileName \in FileNames, data \in ByteSlices, errs \in ErrLists :
           Responds(FileCall("ServeBytes", fileName, bytesNewBuffer(data), errs),
                    ServeBytes(fileName, data, errs))

CallDownload ==
    /\ phase = "ready"
    /\ \E fileName \in FileNames, data \in FileStreams, errs \in ErrLists :
           Responds(FileCall("Download", fileName, data, errs), Download(fileName, data, errs))

CallDownloadBytes ==
    /\ phase = "ready"
    /\ \E fileName \in FileNames, data \in ByteSlices, errs \in ErrLists :
           Responds(FileCall("DownloadBytes", fileName, bytesNewBuffer(data), errs),
                    DownloadBytes(fileName, data, errs))

CallBadRequest ==
    /\ phase = "ready"
    /\ \E msg \in Formats, args \in ArgLists :
           Responds(Call("BadRequest", 0, NilValue, <<>>, msg, args), BadRequest(msg, args))

CallUnauthorized ==
    /\ phase = "ready"
    /\ \E msg \in Formats, args \in ArgLists :
           Responds(Call("Unauthorized", 0, NilValue, <<>>, msg, args), Unauthorized(msg, args))

CallForbidden ==
    /\ phase = "ready"
    /\ \E msg \in Formats, args \in ArgLists :
           Responds(Call("Forbidden", 0, NilValue, <<>>, msg, args), Forbidden(msg, args))

CallNotFound ==
    /\ phase = "ready"
    /\ \E msg \in Formats, args \in ArgLists :
           Responds(Call("NotFound", 0, NilValue, <<>>, msg, args), NotFound(msg, args))

CallMethodNotAllowed ==
    /\ phase = "ready"
    /\ \E msg \in Formats, args \in ArgLists :
           Responds(Call("MethodNotAllowed", 0, NilValue, <<>>, msg, args), MethodNotAllowed(msg, args))

CallConflict ==
    /\ phase = "ready"
    /\ \E msg \in Formats, args \in ArgLists :
           Responds(Call("Conflict", 0, NilValue, <<>>, msg, args), Conflict(msg, args))

CallGone ==
    /\ phase = "ready"
    /\ \E msg \in Formats, args \in ArgLists :
           Responds(Call("Gone", 0, NilValue, <<>>, msg, args), Gone(msg, args))

CallTooManyRequests ==
    /\ phase = "ready"
    /\ \E msg \in Formats, args \in ArgLists :
           Responds(Call("TooManyRequests", 0, NilValue, <<>>, msg, args), TooManyRequests(msg, args))

CallInternalServerError ==
    /\ phase = "ready"
    /\ \E msg \in Formats, args \in ArgLists :
           Responds(Call("InternalServerError", 0, NilValue, <<>>, msg, args), InternalServerError(msg, args))

CallNotImplemented ==
    /\ phase = "ready"
    /\ \E msg \in Formats, args \in ArgLists :
           Responds(Call("NotImplemented", 0, NilValue, <<>>, msg, args), NotImplemented(msg, args))

CallBadGateway ==
    /\ phase = "ready"
    /\ \E msg \in Formats, args \in ArgLists :
           Responds(Call("BadGateway", 0, NilValue, <<>>, msg, args), BadGateway(msg, args))

CallServiceUnavailable ==
    /\ phase = "ready"
    /\ \E msg \in Formats, args \in ArgLists :
           Responds(Call("ServiceUnavailable", 0, NilValue, <<>>, msg, args), ServiceUnavailable(msg, args))

CallGatewayTimeout ==
    /\ phase = "ready"
    /\ \E msg \in Formats, args \in ArgLists :
           Responds(Call("GatewayTimeout", 0, NilValue, <<>>, msg, args), GatewayTimeout(msg, args))

CallNoContent ==
    /\ phase = "ready"
    /\ \E errs \in ErrLists :
           Responds(Call("NoContent", 0, NilValue, errs, <<>>, <<>>), NoContent(errs))

CallNotModified ==
    /\ phase = "ready"
    /\ \E errs \in ErrLists :
           Responds(Call("NotModified", 0, NilValue, errs, <<>>, <<>>), NotModified(errs))

CallHTML ==
    /\ phase = "ready"
    /\ \E markup \in Markups, errs \in ErrLists :
           Responds([Call("HTML", 0, NilValue, errs, <<>>, <<>>) EXCEPT !.markup = markup],
                    HTML(markup, errs))

\* the context value is recorded as the value of the call
CallHTMLTemplate ==
    /\ phase = "ready"
    /\ \E htmlTemplate \in Templates, ctxValue \in Contexts, errs \in ErrLists :
           Responds([Call("HTMLTemplate", 0, StringValue(ctxValue), errs, <<>>, <<>>)
                         EXCEPT !.htmlTemplate = htmlTemplate],
                    HTMLTemplate(htmlTemplate, ctxValue, errs))

Next ==
    \/ To
    \/ CallReply
    \/ CallOk
    \/ CallCreated
    \/ CallAccepted
    \/ CallFail
    \/ CallRedirect
    \/ CallRedirectPermanent
    \/ CallRedirectTo
    \/ CallRedirectPermanentTo
    \/ CallServe
    \/ CallServeBytes
    \/ CallDownload
    \/ CallDownloadBytes
    \/ CallBadRequest
    \/ CallUnauthorized
    \/ CallForbidden
    \/ CallNotFound
    \/ CallMethodNotAllowed
    \/ CallConflict
    \/ CallGone
    \/ CallTooManyRequests
    \/ CallInternalServerError
    \/ CallNotImplemented
    \/ CallBadGateway
    \/ CallServiceUnavailable
    \/ CallGatewayTimeout
    \/ CallNoContent
    \/ CallNotModified
    \/ CallHTML
    \/ CallHTMLTemplate

Spec == Init /\ [][Next]_vars

\* The responder made of a nil sink or a nil request (or both), and one call
\* on it
InitNil ==
    /\ phase = "ready"
    /\ \E responder \in { <<nilWriter, "GET">>, <<nilWriter, nilRequest>>,
                          <<newResponseWriter, nilRequest>>, <<presetWriter, nilRequest>> } :
           /\ writer = responder[1]
           /\ request = responder[2]
    /\ ops = <<>>
    /\ call = NoCall
    /\ earlier = <<>>
    /\ Loaded

NextNil ==
    \/ CallReply
    \/ CallOk
    \/ CallCreated
    \/ CallAccepted
    \/ CallFail
    \/ CallRedirect
    \/ CallRedirectPermanent
    \/ CallRedirectTo
    \/ CallRedirectPermanentTo
    \/ CallServe
    \/ CallServeBytes
    \/ CallDownload
    \/ CallDownloadBytes
    \/ CallBadRequest
    \/ CallUnauthorized
    \/ CallForbidden
    \/ CallNotFound
    \/ CallMethodNotAllowed
    \/ CallConflict
    \/ CallGone
    \/ CallTooManyRequests
    \/ CallInternalServerError
    \/ CallNotImplemented
    \/ CallBadGateway
    \/ CallServiceUnavailable
    \/ CallGatewayTimeout
    \/ CallNoContent
    \/ CallNotModified
    \/ CallHTML
    \/ CallHTMLTemplate

SpecNil == InitNil /\ [][NextNil]_vars


----------------------------------------------------------------------------
(* Vocabulary of the properties *)

Responded == phase = "responded"

ReplyFamily  == {"Reply", "Ok", "Created", "Accepted"}
RedirectToFamily == {"RedirectTo", "RedirectPermanentTo"}

StatusWrites(os) == SelectSeq(os, LAMBDA o : o.op = "WriteHeader")
BodyWrites(os)   == SelectSeq(os, LAMBDA o : o.op = "Write")

\* the variadic list holds a non-nil error
HasError(errs) == \E i \in 1..Len(errs) : errs[i] # nil

\* the position of the first non-nil error of a list that has one
FirstErrorIndex(errs) ==
    CHOOSE i \in 1..Len(errs) : errs[i] # nil /\ \A j \in 1..(i - 1) : errs[j] = nil

\* the failure wire shape {"status":S,"message":M}, message omitted when empty
FailureBody(status, message) ==
    <<"{\"status\":", ToString(status)>>
    \o (IF message = <<>> THEN <<>> ELSE <<",\"message\":">> \o jsonString(message))
    \o <<"}">>

\* the sink holds one JSON failure response with this status and message
IsFailureResponse(status, message) ==
    /\ StatusWrites(ops) = <<WriteHeader(status)>>
    /\ BodyWrites(ops) = <<Write(FailureBody(status, message))>>
    /\ writer.StatusCode = status
    /\ writer.Body = FailureBody(status, message)
    /\ Get(writer.Headers, "Content-Type") = <<"application/json">>

\* fixed priority of the capabilities
Priority(cap) == CASE cap = "Status" -> 1 [] cap = "StatusCode" -> 2 [] cap = "Code" -> 3

\* the capabilities exposed by some link of the chain
ChainCaps(err) == UNION {DOMAIN err[i].ret : i \in 1..Len(err)}

----------------------------------------------------------------------------
(* C1 - C3: the dispatcher and the effective error *)

\* C1: whenever Reply, Ok, Created or Accepted is given a list with a non-nil
\* error, the value and the requested status are ignored: the call performs
\* exactly one status write, carrying the classified status of the first
\* non-nil error, and exactly one body write, the JSON failure {status,
\* message} of that error; a requested success status is never written, the
\* body holds nothing of the value, and the value is neither read nor closed.
C1_ErrorOverridesValue ==
    (Responded /\ call.op \in ReplyFamily /\ HasError(call.errs)) =>
        LET d == toErrorResponse(call.errs[FirstErrorIndex(call.errs)])
        IN  /\ IsFailureResponse(d.Status, d.Message)
            /\ call.status < 400 => \A i \in 1..Len(ops) : ops[i] # WriteHeader(call.status)
            /\ \A i \in 1..Len(ops) : ops[i].op # "Close"
            /\ "Content-Disposition" \notin DOMAIN writer.Headers
            /\ "Location" \notin DOMAIN writer.Headers

\* Ok("hello", errorWithCode{401, "moo"}) has answered 401 with the failure body
C1_Witness ==
    /\ Responded
    /\ call.op = "Ok"
    /\ call.value = StringValue(<<"hello">>)
    /\ call.errs = << <<Link(<<"moo">>, "Code" :> 401)>> >>
    /\ writer.StatusCode = 401
    /\ writer.Body = <<"{\"status\":", "401", ",\"message\":", "\"", "moo", "\"", "}">>


\* the call is a value reply without effective error whose value is neither a
\* redirect directive nor a readable stream
PlainReply ==
    /\ Responded
    /\ call.op \in ReplyFamily
    /\ ~HasError(call.errs)
    /\ ~IsRedirector(call.value)
    /\ ~IsReader(call.value)

\* the status a success entry point asks for
RequestedStatus(c) ==
    CASE c.op = "Ok"       -> 200
      [] c.op = "Created"  -> 201
      [] c.op = "Accepted" -> 202
      [] OTHER             -> c.status

\* the sink ends with the requested status, the JSON content type and the
\* JSON encoding of the value as its body
IsValueResponse ==
    /\ writer.StatusCode = RequestedStatus(call)
    /\ StatusWrites(ops) = <<WriteHeader(RequestedStatus(call))>>
    /\ Get(writer.Headers, "Content-Type") = <<"application/json">>
    /\ writer.Body = jsonMarshal(call.value).bytes
    /\ call.value = NilValue => writer.Body = <<"null">>
    /\ call.value = StringValue(<<"hello">>) => writer.Body = <<"\"", "hello", "\"">>

\* C2, as stated: with no effective error and a value that is neither a
\* redirect directive nor a stream, the sink ends with the requested status,
\* Content-Type application/json and the JSON encoding of the value as body.
C2_Original == PlainReply => IsValueResponse

\* C2, amended: the same, for every value that json.Marshal can encode (a
\* value it cannot encode, such as a channel, is answered with 500 instead).
C2_ValueReply ==
    (PlainReply /\ jsonMarshal(call.value).err = nil) => IsValueResponse

\* Created(mockUser{42, "Bob"}) has answered 201 with the encoded struct
C2_Witness ==
    /\ PlainReply
    /\ call.op = "Created"
    /\ call.value = StructValue(42, <<"Bob">>)
    /\ writer.StatusCode = 201
    /\ writer.Body = <<"{\"id\":", "42", ",\"name\":", "\"", "Bob", "\"", "}">>

\* what the call of c does on a fresh sink when handed the error list errs
OpsWithErrs(c, errs) ==
    CASE c.op = "Reply"    -> Reply(newResponseWriter, request, c.status, c.value, errs)
      [] c.op = "Ok"       -> Ok(newResponseWriter, request, c.value, errs)
      [] c.op = "Created"  -> Created(newResponseWriter, request, c.value, errs)
      [] c.op = "Accepted" -> Accepted(newResponseWriter, request, c.value, errs)
      [] c.op = "RedirectTo" -> RedirectTo(newResponseWriter, request, c.value, errs)
      [] c.op = "RedirectPermanentTo" ->
                              RedirectPermanentTo(newResponseWriter, request, c.value, errs)

\* C3: the effective error of a variadic list is its first non-nil element:
\* the response is the failure response of that element alone, whatever
\* follows it in the list, and a list that is empty or all nil gives exactly
\* the response of the same call without any error argument.
C3_FirstNonNilErrorWins ==
    (Responded /\ call.op \in ReplyFamily \cup RedirectToFamily) =>
        IF HasError(call.errs)
           THEN LET e == call.errs[FirstErrorIndex(call.errs)]
                    d == toErrorResponse(e)
                IN  /\ IsFailureResponse(d.Status, d.Message)
                    /\ ops = OpsWithErrs(call, <<e>>)
           ELSE /\ ops = OpsWithErrs(call, <<>>)
                /\ call.op \in ReplyFamily /\ ~IsRedirector(call.value)
                   /\ jsonMarshal(call.value).err = nil
                       => writer.StatusCode = RequestedStatus(call)

\* Ok(value, err401, err404), with two different errors, has answered with
\* the first one
C3_Witness ==
    /\ Responded
    /\ call.op = "Ok"
    /\ Len(call.errs) = 2
    /\ call.errs[1] # nil
    /\ call.errs[2] # nil
    /\ toErrorResponse(call.errs[1]).Status = 401
    /\ toErrorResponse(call.errs[2]).Status = 404
    /\ writer.StatusCode = 401

----------------------------------------------------------------------------
(* C4 - C6: the error classifier, observed through Fail(err) *)

FailCall == Responded /\ call.op = "Fail"
FailErr  == call.errs[1]

\* the error itself (its outermost link) exposes exactly one capability
ExposesExactlyOne(err) == err # nil /\ Cardinality(DOMAIN Head(err).ret) = 1
OwnCap(err) == CHOOSE cap \in DOMAIN Head(err).ret : TRUE

\* C4, as stated: an error E exposing exactly one of Status(), StatusCode(),
\* Code(), returning S, with message M, classifies to exactly {S, M}.
C4_Original ==
    (FailCall /\ ExposesExactlyOne(FailErr)) =>
        IsFailureResponse(Head(FailErr).ret[OwnCap(FailErr)], ErrorText(FailErr))

\* C4, amended: an error E exposing exactly one capability, returning S, with
\* message M, classifies to exactly {S, M} provided no error wrapped by E
\* exposes a capability of higher priority (Status before StatusCode before
\* Code).
C4_SingleCapability ==
    (/\ FailCall
     /\ ExposesExactlyOne(FailErr)
     /\ \A i \in 2..Len(FailErr) : \A cap \in DOMAIN FailErr[i].ret :
            Priority(cap) >= Priority(OwnCap(FailErr))) =>
        IsFailureResponse(Head(FailErr).ret[OwnCap(FailErr)], ErrorText(FailErr))

\* an error with StatusCode() = 403 wrapping one with Code() = 404 and another
\* message has been classified by its own capability and message
C4_Witness ==
    /\ FailCall
    /\ Len(FailErr) = 2
    /\ FailErr[1] = Link(<<"moo">>, "StatusCode" :> 403)
    /\ FailErr[2] = Link(<<>>, "Code" :> 404)
    /\ writer.StatusCode = 403
    /\ writer.Body = FailureBody(403, <<"moo">>)

\* C5: classification falls back to 500 when no capability is found: an
\* error with no capability anywhere in its unwrap chain is answered with 500
\* and its own message, and Fail(nil) with 500 and "unknown error".
C5_FallbackIs500 ==
    FailCall =>
        /\ FailErr = nil => /\ IsFailureResponse(500, <<"unknown error">>)
                            /\ writer.Body = <<"{\"status\":", "500", ",\"message\":",
                                               "\"", "unknown error", "\"", "}">>
        /\ (FailErr # nil /\ ChainCaps(FailErr) = {}) =>
               IsFailureResponse(500, Head(FailErr).msg)

\* a two-link chain without any capability has been answered with 500 and the
\* outer message
C5_Witness ==
    /\ FailCall
    /\ FailErr = <<Link(<<"moo">>, <<>>), Link(<<>>, <<>>)>>
    /\ writer.StatusCode = 500
    /\ writer.Body = FailureBody(500, <<"moo">>)

\* C6: when the links of the unwrap chain expose more than one of the three
\* capabilities, the status is the one returned for the highest-priority
\* capability present anywhere in the chain (Status, then StatusCode, then
\* Code), by the outermost link exposing that capability, whichever link is
\* outermost in the chain.
C6_PriorityOverWholeChain ==
    (FailCall /\ FailErr # nil /\ Cardinality(ChainCaps(FailErr)) > 1) =>
        LET best == CHOOSE cap \in ChainCaps(FailErr) :
                        \A other \in ChainCaps(FailErr) : Priority(cap) <= Priority(other)
            at   == CHOOSE i \in 1..Len(FailErr) :
                        /\ best \in DOMAIN FailErr[i].ret
                        /\ \A j \in 1..(i - 1) : best \notin DOMAIN FailErr[j].ret
        IN  /\ writer.StatusCode = FailErr[at].ret[best]
            /\ StatusWrites(ops) = <<WriteHeader(FailErr[at].ret[best])>>

\* an error with Code() = 403 wrapping one with Status() = 404 has been
\* answered with the inner link's 404
C6_Witness ==
    /\ FailCall
    /\ Len(FailErr) = 2
    /\ DOMAIN FailErr[1].ret = {"Code"}
    /\ FailErr[1].ret["Code"] = 403
    /\ DOMAIN FailErr[2].ret = {"Status"}
    /\ FailErr[2].ret["Status"] = 404
    /\ writer.StatusCode = 404

----------------------------------------------------------------------------
(* C7 - C10: redirects *)

\* a redirect call without effective error: the printf entry points, the
\* Redirector entry points with a non-nil redirector, and the value replies
\* whose value is a Redirector
TemporaryRedirectCall ==
    /\ Responded
    /\ ~HasError(call.errs)
    /\ \/ call.op = "Redirect"
       \/ call.op = "RedirectTo" /\ call.value # NilValue
       \/ call.op \in ReplyFamily /\ IsRedirector(call.value)

PermanentRedirectCall ==
    /\ Responded
    /\ ~HasError(call.errs)
    /\ \/ call.op = "RedirectPermanent"
       \/ call.op = "RedirectPermanentTo" /\ call.value # NilValue

\* the redirect goes through a Redirector value (not a printf entry point)
ViaRedirector == call.op \notin {"Redirect", "RedirectPermanent"}

\* the URL template of the redirect and the target URL after substitution
RedirectTemplate == IF ViaRedirector THEN call.value.url ELSE call.format
RedirectTarget   == Sprintf(RedirectTemplate, call.args)

\* C7: with no effective error and a non-empty target URL, Redirect,
\* RedirectTo and a value reply whose value is a Redirector write the status
\* 307 and no other, whatever status the reply asked for and also when the
\* value is a readable stream as well; RedirectPermanent and
\* RedirectPermanentTo write 308 and no other.
C7_RedirectStatusFixed ==
    /\ (TemporaryRedirectCall /\ RedirectTarget # <<>>) =>
           /\ StatusWrites(ops) = <<WriteHeader(307)>>
           /\ writer.StatusCode = 307
    /\ (PermanentRedirectCall /\ RedirectTarget # <<>>) =>
           /\ StatusWrites(ops) = <<WriteHeader(308)>>
           /\ writer.StatusCode = 308

\* Reply(308, v), v both a Redirector to "/" and a readable stream, has
\* answered 307 with the Location and none of the stream
C7_Witness ==
    /\ Responded
    /\ call.op = "Reply"
    /\ call.status = 308
    /\ call.errs = <<>>
    /\ call.value.caps = {"Redirector", "Reader"}
    /\ call.value.url = <<"/">>
    /\ writer.StatusCode = 307
    /\ Get(writer.Headers, "Location") = <<"/">>
    /\ "Content-Disposition" \notin DOMAIN writer.Headers

\* C8: a redirect whose target URL is empty after placeholder substitution
\* is answered with one 500 JSON failure: no Location header is set and
\* neither 307 nor 308 is written.
C8_EmptyTargetFails ==
    ((TemporaryRedirectCall \/ PermanentRedirectCall) /\ RedirectTarget = <<>>) =>
        /\ IsFailureResponse(500, <<"unable to redirect to empty url">>)
        /\ "Location" \notin DOMAIN writer.Headers
        /\ \A i \in 1..Len(ops) :
               ops[i].op = "WriteHeader" => ops[i].code \notin {307, 308}

\* RedirectPermanent("%s", "") - a template that is not empty, emptied by the
\* substitution - has been answered with the 500 failure
C8_Witness ==
    /\ Responded
    /\ call.op = "RedirectPermanent"
    /\ call.format = <<"%", "s">>
    /\ call.args = << <<>> >>
    /\ writer.StatusCode = 500
    /\ "Location" \notin DOMAIN writer.Headers

\* C9: RedirectTo, RedirectPermanentTo and a value reply with a Redirector
\* whose Redirect() returns a non-empty URL U, without effective error, set
\* the Location header to exactly U, for every U.
C9_LocationIsRedirectorURL ==
    ((TemporaryRedirectCall \/ PermanentRedirectCall)
        /\ ViaRedirector /\ call.value.url # <<>>) =>
        Get(writer.Headers, "Location") = call.value.url

\* C10: RedirectTo and RedirectPermanentTo look at the effective error before
\* the redirector: with an effective error the response is the failure of
\* that error, also for a nil redirector; with no error and a nil redirector
\* it is a 500 failure; in both cases no Location header is set and no
\* redirect status is written.
C10_ErrorBeforeRedirector ==
    (Responded /\ call.op \in RedirectToFamily) =>
        /\ HasError(call.errs) =>
               LET d == toErrorResponse(call.errs[FirstErrorIndex(call.errs)])
               IN  /\ IsFailureResponse(d.Status, d.Message)
                   /\ "Location" \notin DOMAIN writer.Headers
        /\ (~HasError(call.errs) /\ call.value = NilValue) =>
               /\ IsFailureResponse(500, <<"unable to redirect using nil redirector">>)
               /\ "Location" \notin DOMAIN writer.Headers

\* RedirectTo(nil, errorWithStatusCode{403, ""}) has answered 403, not the
\* 500 of the nil redirector
C10_Witness ==
    /\ Responded
    /\ call.op = "RedirectTo"
    /\ call.value = NilValue
    /\ call.errs = << <<Link(<<>>, "StatusCode" :> 403)>> >>
    /\ writer.StatusCode = 403
    /\ writer.Body = <<"{\"status\":", "403", "}">>

----------------------------------------------------------------------------
(* C11 - C12: raw streams replied through Reply *)

\* a value reply without effective error whose value is dispatched as a raw
\* stream: a reader that is not a redirect directive
RawReply ==
    /\ Responded
    /\ call.op \in ReplyFamily
    /\ ~HasError(call.errs)
    /\ IsReader(call.value)
    /\ ~IsRedirector(call.value)

\* C11: for a raw stream replied through Reply with no effective error, and
\* every subset of the optional capabilities: Content-Type is the string of
\* the content-type capability when present and non-empty, and
\* application/octet-stream otherwise, never empty; Content-Disposition is
\* attachment; filename="<name>" when the file-name capability is present
\* with a non-empty name, and inline otherwise; each header is decided by its
\* own capability alone; the status is the requested one and the body is
\* exactly the bytes the stream delivered.
C11_RawHeaders ==
    RawReply =>
        LET v == call.value
        IN  /\ Get(writer.Headers, "Content-Type") =
                   (IF "ContentTypeSpecified" \in v.caps /\ v.ctype # <<>>
                       THEN v.ctype ELSE <<"application/octet-stream">>)
            /\ Get(writer.Headers, "Content-Type") # <<>>
            /\ Get(writer.Headers, "Content-Disposition") =
                   (IF "FileNameSpecified" \in v.caps /\ v.fname # <<>>
                       THEN <<"attachment; filename=\"">> \o v.fname \o <<"\"">>
                       ELSE <<"inline">>)
            /\ DOMAIN writer.Headers = {"Content-Type", "Content-Disposition"}
            /\ StatusWrites(ops) = <<WriteHeader(RequestedStatus(call))>>
            /\ writer.StatusCode = RequestedStatus(call)
            /\ writer.Body = v.data

\* Reply(404, stream) for a stream with an empty content type and the file
\* name a.log has answered 404 with the default type and an attachment
C11_Witness ==
    /\ RawReply
    /\ call.op = "Reply"
    /\ call.status = 404
    /\ call.value.caps = {"Reader", "ContentTypeSpecified", "FileNameSpecified"}
    /\ call.value.ctype = <<>>
    /\ call.value.fname = <<"a.log">>
    /\ call.value.data = <<"B", "C">>
    /\ writer.StatusCode = 404
    /\ Get(writer.Headers, "Content-Type") = <<"application/octet-stream">>
    /\ Get(writer.Headers, "Content-Disposition") = <<"attachment; filename=\"", "a.log", "\"">>
    /\ writer.Body = <<"B", "C">>

\* C12: when Reply streams a raw value that also has a close capability (no
\* effective error), Close is invoked exactly once, after the last body write
\* of the copy, whether the copy completes or fails, and before Reply
\* returns: it is the last operation of the call.
C12_ClosedOnceAfterCopy ==
    (RawReply /\ "Closer" \in call.value.caps) =>
        /\ Len(SelectSeq(ops, LAMBDA o : o.op = "Close")) = 1
        /\ ops[Len(ops)] = Close
        /\ \A i \in 1..Len(ops) : ops[i].op \in {"Write", "WriteHeader", "Set"} => i < Len(ops)

\* a closable stream whose read fails after two bytes has been copied and
\* then closed
C12_Witness ==
    /\ RawReply
    /\ "Closer" \in call.value.caps
    /\ call.value.rerr # nil
    /\ call.value.data = <<"B", "C">>
    /\ Len(ops) = 5
    /\ ops[4] = Write(<<"B", "C">>)
    /\ ops[5] = Close

----------------------------------------------------------------------------
(* C13 - C15: Serve, Download, ServeBytes, DownloadBytes *)

FileFamily     == {"Serve", "ServeBytes", "Download", "DownloadBytes"}
DownloadFamily == {"Download", "DownloadBytes"}

\* a file entry point called with no effective error
FileReply ==
    /\ Responded
    /\ call.op \in FileFamily
    /\ ~HasError(call.errs)

\* the stream is absent, or is read to its end without error
ReadCompletes == call.value = NilValue \/ call.value.rerr = nil

\* the extension of a file name with a period: its suffix from the last period
Extension(fileName) ==
    CHOOSE e \in {SubSeq(fileName, i, Len(fileName)) : i \in 1..Len(fileName)} :
        Head(e) = "." /\ \A j \in 2..Len(e) : e[j] # "."

\* the type looked up by extension, application/octet-stream when the name
\* has no extension or the lookup is empty
ExpectedContentType(fileName) ==
    IF \A i \in 1..Len(fileName) : fileName[i] # "." THEN <<"application/octet-stream">>
    ELSE IF TypeByExtension(Extension(fileName)) = <<>> THEN <<"application/octet-stream">>
    ELSE TypeByExtension(Extension(fileName))

\* status 200, the headers of the file name and the entry point, and a body
\* of exactly the stream's bytes (empty and without failure write when the
\* stream is absent)
FileServed ==
    /\ StatusWrites(ops) = <<WriteHeader(200)>>
    /\ writer.StatusCode = 200
    /\ DOMAIN writer.Headers = {"Content-Type", "Content-Disposition"}
    /\ Get(writer.Headers, "Content-Type") = ExpectedContentType(call.fileName)
    /\ Get(writer.Headers, "Content-Disposition") =
           (IF call.op \in DownloadFamily
               THEN <<"attachment; filename=\"">> \o call.fileName \o <<"\"">>
               ELSE <<"inline">>)
    /\ writer.Body = (IF call.value = NilValue THEN <<>> ELSE call.value.data)
    /\ call.value = NilValue => BodyWrites(ops) = <<>>

\* C13 as stated: Serve, Download, ServeBytes and DownloadBytes with no
\* effective error write status 200, the Content-Type of the file name's
\* extension, inline or attachment; filename="<fileName>", and a body of
\* exactly the stream's bytes, for every stream. Violated by a stream whose
\* read fails: the failure response of the read error is written after it.
C13_Original == FileReply => FileServed

\* C13 (amended): Serve, Download, ServeBytes and DownloadBytes with no
\* effective error and a stream that is absent or is read to its end without
\* a read error write status 200 exactly once, a Content-Type looked up from
\* the file name's extension (the text from the last "."; application/
\* octet-stream when there is no extension or the lookup is empty), a
\* Content-Disposition of inline for Serve and attachment;
\* filename="<fileName>" for Download, and a body equal to exactly the
\* stream's bytes; an absent stream gives the same headers and status with an
\* empty body and no failure write.
C13_FileServedWhenReadCompletes == (FileReply /\ ReadCompletes) => FileServed

\* Download("a.txt.jpg", stream of B C) has answered 200 as image/jpeg with
\* the attachment disposition and the two bytes
C13_Witness ==
    /\ FileReply
    /\ ReadCompletes
    /\ call.op = "Download"
    /\ call.fileName = <<"a", ".", "txt", ".", "jpg">>
    /\ call.value # NilValue
    /\ call.value.data = <<"B", "C">>
    /\ writer.StatusCode = 200
    /\ Get(writer.Headers, "Content-Type") = <<"image/jpeg">>
    /\ Get(writer.Headers, "Content-Disposition") =
           <<"attachment; filename=\"", "a", ".", "txt", ".", "jpg", "\"">>
    /\ writer.Body = <<"B", "C">>

\* Serve or Download with no effective error and a stream whose read fails
\* with an error that is one link exposing one capability
FailedRead ==
    /\ FileReply
    /\ call.op \in {"Serve", "Download"}
    /\ call.value # NilValue
    /\ Len(call.value.rerr) = 1
    /\ Cardinality(DOMAIN Head(call.value.rerr).ret) = 1

\* C14: Serve and Download called with no effective error and a stream whose
\* read fails with an error carrying status S and message M end with the
\* sink's status equal to S, Content-Type application/json, and a body that
\* is the bytes already copied followed by the JSON failure with status S and
\* message M.
C14_FailedReadEndsAsFailure ==
    FailedRead =>
        LET link == Head(call.value.rerr)
            S == link.ret[CHOOSE cap \in DOMAIN link.ret : TRUE]
        IN  /\ writer.StatusCode = S
            /\ Get(writer.Headers, "Content-Type") = <<"application/json">>
            /\ writer.Body = call.value.data \o FailureBody(S, link.msg)

\* Serve("foo.txt", stream failing with 403 "bad monkey" after B C) has ended
\* with status 403 and the failure after the two bytes
C14_Witness ==
    /\ FailedRead
    /\ call.op = "Serve"
    /\ call.fileName = <<"foo", ".", "txt">>
    /\ call.value.data = <<"B", "C">>
    /\ call.value.rerr = <<Link(<<"bad monkey">>, "Status" :> 403)>>
    /\ writer.StatusCode = 403
    /\ writer.Body = <<"B", "C">> \o FailureBody(403, <<"bad monkey">>)

\* C15: in every responder call the sink receives at most one response: at
\* most one status write, and no status write after a body write. Violated by
\* Serve and Download when the read of the stream fails: they have written
\* 200 (and the bytes copied) and then write the failure response.
C15_AtMostOneResponse ==
    Responded =>
        /\ Len(StatusWrites(ops)) <= 1
        /\ \A i, j \in 1..Len(ops) :
               (i < j /\ ops[i].op = "Write") => ops[j].op # "WriteHeader"

----------------------------------------------------------------------------
(* C16 - C17: the encoding failure and the failure wire shape *)

\* a value reply without effective error whose value the JSON encoder
\* rejects (a channel)
MarshalFailure == PlainReply /\ call.value.t = "chan"

\* C16: if JSON encoding of the value fails in Reply, the response is a 500
\* internal error: the only status write is 500, the requested status and the
\* application/json success header are never written, and exactly one body
\* write of a non-empty text is made, so the response is neither half-written
\* nor empty.
C16_MarshalFailureIs500 ==
    MarshalFailure =>
        /\ StatusWrites(ops) = <<WriteHeader(500)>>
        /\ writer.StatusCode = 500
        /\ RequestedStatus(call) # 500
        /\ \A i \in 1..Len(ops) :
               ops[i] # SetHeader("Content-Type", <<"application/json">>)
        /\ Len(BodyWrites(ops)) = 1
        /\ writer.Body # <<>>

\* Reply(404, channel) has been answered 500 with the encoder's message
C16_Witness ==
    /\ MarshalFailure
    /\ call.op = "Reply"
    /\ call.status = 404
    /\ writer.StatusCode = 500
    /\ writer.Body = <<"json marshal error: ", "json: unsupported type: chan int", "\n">>

\* the call took a failure path: an effective error, Fail, an encoding
\* failure, an empty redirect target or a nil redirector, or a failed read
FailurePath ==
    /\ Responded
    /\ \/ HasError(call.errs)
       \/ call.op = "Fail"
       \/ MarshalFailure
       \/ (TemporaryRedirectCall \/ PermanentRedirectCall) /\ RedirectTarget = <<>>
       \/ call.op \in RedirectToFamily /\ call.value = NilValue
       \/ FileReply /\ ~ReadCompletes

\* bytes of the shape {"status":<int>} or {"status":<int>,"message":<string>}
WireShaped(b) ==
    /\ Len(b) >= 3
    /\ b[1] = "{\"status\":"
    /\ b[Len(b)] = "}"
    /\ Len(b) > 3 => b[3] = ",\"message\":"

\* C17: every failure response uses the failure wire shape: Content-Type
\* application/json and a body that is the JSON object {"status": <int>,
\* "message": <string>}, message omitted when empty. Violated by the encoding
\* failure, which is answered in plain text.
C17_FailureWireShape ==
    FailurePath =>
        /\ Get(writer.Headers, "Content-Type") = <<"application/json">>
        /\ WireShaped(writer.Body)

----------------------------------------------------------------------------
(* C18: the named failures *)

\* the fixed status of each named failure
HelperStatus ==
    [ BadRequest |-> 400, Unauthorized |-> 401, Forbidden |-> 403, NotFound |-> 404,
      MethodNotAllowed |-> 405, Conflict |-> 409, Gone |-> 410, TooManyRequests |-> 429,
      InternalServerError |-> 500, NotImplemented |-> 501, BadGateway |-> 502,
      ServiceUnavailable |-> 503, GatewayTimeout |-> 504 ]

HelperCall == Responded /\ call.op \in DOMAIN HelperStatus

\* C18: each named failure writes exactly its fixed status (400, 401, 403,
\* 404, 405, 409, 410, 429, 500, 501, 502, 503, 504) once, with Content-Type
\* application/json and one body whose status field is that status and whose
\* message is the text after placeholder substitution; the message field is
\* omitted when that text is empty.
C18_NamedFailures ==
    HelperCall =>
        LET status  == HelperStatus[call.op]
            message == Sprintf(call.format, call.args)
        IN  /\ IsFailureResponse(status, message)
            /\ message = <<>> => writer.Body = <<"{\"status\":", ToString(status), "}">>

\* Gone("/%s", "x") has been answered 410 with the message /x
C18_Witness ==
    /\ HelperCall
    /\ call.op = "Gone"
    /\ call.format = <<"/", "%", "s">>
    /\ call.args = << <<"x">> >>
    /\ writer.StatusCode = 410
    /\ Get(writer.Headers, "Content-Type") = <<"application/json">>
    /\ writer.Body = <<"{\"status\":", "410", ",\"message\":", "\"", "/", "x", "\"", "}">>

----------------------------------------------------------------------------
(* C19: the range of the failure status *)

\* a call that reports an error: Fail, or a call given a non-nil error
ErrorCall == Responded /\ (call.op = "Fail" \/ HasError(call.errs))

\* the error reported
EffectiveError ==
    IF call.op = "Fail" THEN call.errs[1] ELSE call.errs[FirstErrorIndex(call.errs)]

\* every integer the capabilities of the chain return is a 4XX/5XX code
InContract(err) ==
    \A i \in 1..Len(err) : \A cap \in DOMAIN err[i].ret : err[i].ret[cap] \in 400..599

\* C19 as stated: whenever a call is given a non-nil effective error, or Fail
\* is called with any error, every status written is in 400..599, for every
\* integer the capability returns. Violated by an error whose Status() is
\* 200: the integer is written as it is.
C19_Original ==
    ErrorCall =>
        /\ writer.StatusCode \in 400..599
        /\ \A i \in 1..Len(ops) : ops[i].op = "WriteHeader" => ops[i].code \in 400..599

\* C19 (amended): whenever a call is given a non-nil effective error, or
\* Fail is called with any error, and every integer that the
\* Status/StatusCode/Code capabilities of the error's chain return is in
\* 400..599, exactly one status is written and it is in 400..599 (500 for nil
\* and for a chain without capability).
C19_FailureStatusInRange ==
    (ErrorCall /\ InContract(EffectiveError)) =>
        /\ Len(StatusWrites(ops)) = 1
        /\ StatusWrites(ops)[1].code \in 400..599
        /\ writer.StatusCode \in 400..599
        /\ ChainCaps(EffectiveError) = {} => writer.StatusCode = 500

\* Serve("foo.txt", stream, nil, err) with an error of Code() 401 has been
\* answered 401 and nothing of the file
C19_Witness ==
    /\ ErrorCall
    /\ call.op = "Serve"
    /\ call.errs = <<nil, <<Link(<<"moo">>, "Code" :> 401)>> >>
    /\ InContract(EffectiveError)
    /\ StatusWrites(ops) = <<WriteHeader(401)>>
    /\ writer.StatusCode = 401

----------------------------------------------------------------------------
(* C20: NoContent and NotModified *)

BodylessCall == Responded /\ call.op \in {"NoContent", "NotModified"}

BodylessStatus == IF call.op = "NoContent" THEN 204 ELSE 304

\* C20: NoContent and NotModified check the effective error first. With no
\* effective error the call's only operation on the sink is the status write
\* (204 and 304 respectively): no header is set and no body byte is written.
\* With an effective error the call writes the JSON failure response of the
\* first non-nil error and never writes 204 or 304.
C20_BodylessResponses ==
    BodylessCall =>
        IF HasError(call.errs)
           THEN LET e == toErrorResponse(call.errs[FirstErrorIndex(call.errs)])
                IN  /\ IsFailureResponse(e.Status, e.Message)
                    /\ \A i \in 1..Len(ops) :
                           ops[i].op = "WriteHeader" => ops[i].code \notin {204, 304}
           ELSE /\ ops = <<WriteHeader(BodylessStatus)>>
                /\ writer.StatusCode = BodylessStatus
                /\ DOMAIN writer.Headers = {}
                /\ writer.Body = <<>>

\* NoContent(err) with an error of Code() 401 "moo" has been answered with
\* the 401 failure and no 204
C20_Witness ==
    /\ BodylessCall
    /\ call.op = "NoContent"
    /\ call.errs = << <<Link(<<"moo">>, "Code" :> 401)>> >>
    /\ writer.StatusCode = 401
    /\ writer.Body = FailureBody(401, <<"moo">>)
    /\ WriteHeader(204) \notin {ops[i] : i \in 1..Len(ops)}

----------------------------------------------------------------------------
(* C21 - C22: HTML and HTMLTemplate *)

HTMLReply == Responded /\ call.op \in {"HTML", "HTMLTemplate"}

FailingNode(node) == node \in {"{{ .Foo }}", "{{ fail }}"}

\* the template of the call is nil or evaluates without error
TemplateSucceeds ==
    \A i \in 1..Len(call.htmlTemplate.nodes) : ~FailingNode(call.htmlTemplate.nodes[i])

\* the output of a template that evaluates without error
TemplateOutput(nodes, ctxValue) ==
    Concat([i \in 1..Len(nodes) |->
               IF nodes[i] = "{{ . }}"
                  THEN [k \in 1..Len(ctxValue) |-> htmlEscape(ctxValue[k])]
                  ELSE <<nodes[i]>>])

\* with an effective error only its failure response; otherwise 200,
\* text/html and the markup, respectively the template's output
HTMLOutcome ==
    IF HasError(call.errs)
       THEN LET e == toErrorResponse(call.errs[FirstErrorIndex(call.errs)])
            IN  IsFailureResponse(e.Status, e.Message)
       ELSE /\ StatusWrites(ops) = <<WriteHeader(200)>>
            /\ writer.StatusCode = 200
            /\ Get(writer.Headers, "Content-Type") = <<"text/html; charset=utf-8">>
            /\ writer.Body =
                   (IF call.op = "HTML" THEN call.markup
                    ELSE IF call.htmlTemplate.isNil THEN <<>>
                    ELSE TemplateOutput(call.htmlTemplate.nodes, call.value.s))

\* C21 as stated: HTML and HTMLTemplate with no effective error write status
\* 200, text/html; charset=utf-8 and the markup, respectively the template's
\* output, for every template; with an effective error only the failure
\* response. Violated by a template whose evaluation fails.
C21_Original == HTMLReply => HTMLOutcome

\* C21 (amended): HTML, and HTMLTemplate with a template that is nil or
\* evaluates without error, with no effective error write status 200 with
\* Content-Type text/html; charset=utf-8 and a body equal to the given
\* markup, respectively the template's output (an empty body when the
\* template is nil); with an effective error HTML and HTMLTemplate write only
\* that error's classified failure response and none of the markup.
C21_HTMLServed ==
    (HTMLReply /\ (HasError(call.errs) \/ TemplateSucceeds)) => HTMLOutcome

\* HTMLTemplate(<p>{{ . }} is {{ . }}</p>, "<b") has answered 200 with the
\* escaped output
C21_Witness ==
    /\ HTMLReply
    /\ call.op = "HTMLTemplate"
    /\ ~HasError(call.errs)
    /\ call.htmlTemplate = Template(<<"<p>", "{{ . }}", " is ", "{{ . }}", "</p>">>)
    /\ call.value.s = <<"<", "b">>
    /\ writer.StatusCode = 200
    /\ writer.Body = <<"<p>", "&lt;", "b", " is ", "&lt;", "b", "</p>">>

\* HTMLTemplate with no effective error and a template whose evaluation fails
TemplateFails ==
    /\ Responded
    /\ call.op = "HTMLTemplate"
    /\ ~HasError(call.errs)
    /\ ~TemplateSucceeds

\* the first node of the template that fails
FirstFailingNode ==
    LET nodes == call.htmlTemplate.nodes
    IN  nodes[CHOOSE i \in 1..Len(nodes) :
                  FailingNode(nodes[i]) /\ \A j \in 1..(i - 1) : ~FailingNode(nodes[j])]

\* C22: when template evaluation fails inside HTMLTemplate (no effective
\* error passed in), the evaluation error goes through the classifier: the
\* sink's final status is the classified failure status (500 for the field
\* error, which has no status capability; 403 for the function error that
\* wraps an error with Status() 403), not 200, the final Content-Type is
\* application/json and the body ends with the failure JSON of that status.
C22_EvalErrorClassified ==
    TemplateFails =>
        LET S == IF FirstFailingNode = "{{ .Foo }}" THEN 500 ELSE 403
            M == IF FirstFailingNode = "{{ .Foo }}" THEN ErrorText(fieldError) ELSE <<"bad monkey">>
            n == Len(FailureBody(S, M))
        IN  /\ writer.StatusCode = S
            /\ writer.StatusCode # 200
            /\ Get(writer.Headers, "Content-Type") = <<"application/json">>
            /\ Len(writer.Body) >= n
            /\ SubSeq(writer.Body, Len(writer.Body) - n + 1, Len(writer.Body)) = FailureBody(S, M)

\* HTMLTemplate(<p>{{ .Foo }} is {{ . }}</p>, "Bob") has ended with status 500
\* and the failure after the <p> already written
C22_Witness ==
    /\ TemplateFails
    /\ call.htmlTemplate = Template(<<"<p>", "{{ .Foo }}", " is ", "{{ . }}", "</p>">>)
    /\ call.value.s = <<"Bob">>
    /\ writer.StatusCode = 500
    /\ writer.Body = <<"<p>">> \o FailureBody(500, ErrorText(fieldError))

----------------------------------------------------------------------------
(* C24: the ContentReader of the README *)

\* Ok(value) without error for a value with a Content() method that is not
\* itself a reader
ContentReaderReply ==
    /\ Responded
    /\ call.op = "Ok"
    /\ ~HasError(call.errs)
    /\ "ContentReader" \in call.value.caps
    /\ ~IsReader(call.value)

\* C24: Ok(value) where value implements ContentReader responds with the
\* reader's raw bytes, status 200, Content-Type application/octet-stream and
\* Content-Disposition inline instead of the JSON of the value, and a
\* ContentFileName() method switches the disposition to attachment. Violated:
\* Reply knows no ContentReader and marshals the value as JSON.
C24_ContentReaderServedRaw ==
    ContentReaderReply =>
        /\ writer.StatusCode = 200
        /\ writer.Body = call.value.data
        /\ Get(writer.Headers, "Content-Type") = <<"application/octet-stream">>
        /\ Get(writer.Headers, "Content-Disposition") =
               (IF "ContentFileNameReader" \in call.value.caps
                   THEN <<"attachment; filename=\"">> \o call.value.fname \o <<"\"">>
                   ELSE <<"inline">>)

----------------------------------------------------------------------------
(* C25 - C26: the order of the sink operations and the closing of streams *)

\* C25: in every responder call all headers are set before the status line
\* is written: no header is set after a status write or a body write of the
\* call. Violated by Serve, Download and HTMLTemplate when the read or the
\* evaluation fails: Fail sets Content-Type after 200 has been written.
C25_HeadersBeforeStatus ==
    Responded =>
        \A i, j \in 1..Len(ops) :
            (i < j /\ ops[i].op \in {"WriteHeader", "Write"}) => ops[j].op # "Set"

\* the call was handed a closable input stream: a value reply whose value is
\* a closable reader, or Serve/Download with a closable reader
ClosableStreamCall ==
    /\ Responded
    /\ \/ call.op \in ReplyFamily /\ IsReader(call.value)
       \/ call.op \in {"Serve", "Download"} /\ call.value # NilValue
    /\ "Closer" \in call.value.caps

Closes == Len(SelectSeq(ops, LAMBDA o : o.op = "Close"))

\* C26 as stated: every call handed a closable stream has closed it when it
\* returns, on the success path, the copy-failure path and the effective-
\* error path. Violated by Serve and Download, which never close, and by a
\* value reply with an effective error.
C26_Original == ClosableStreamCall => Closes >= 1

\* C26 (amended): a closable input stream is closed by the call, exactly
\* once, when a value reply (Reply, Ok, Created, Accepted) streams it as a
\* raw value - no effective error, the value not a redirect directive -, on
\* the success path and on the copy-failure path alike. A value reply with an
\* effective error, or whose value is also a redirect directive, does not
\* close it, and Serve and Download never close their stream on any path.
C26_ClosedOnlyByRawReply ==
    ClosableStreamCall =>
        Closes = (IF RawReply THEN 1 ELSE 0)

\* Ok(closable stream, err) with an error of Code() 401 has written the
\* failure and left the stream open
C26_Witness ==
    /\ ClosableStreamCall
    /\ call.op = "Ok"
    /\ call.errs = << <<Link(<<"moo">>, "Code" :> 401)>> >>
    /\ call.value.data = <<"B", "C">>
    /\ writer.StatusCode = 401
    /\ Closes = 0

----------------------------------------------------------------------------
(* C27: whose message *)

\* Fail(E) for an error E without capability that wraps an inner error
\* exposing a capability
WrappedCapability ==
    /\ FailCall
    /\ Len(FailErr) = 2
    /\ DOMAIN FailErr[1].ret = {}
    /\ DOMAIN FailErr[2].ret # {}

\* the integer of the inner link's highest-priority capability
InnerStatus ==
    LET ret == FailErr[2].ret
    IN  ret[CHOOSE cap \in DOMAIN ret : \A other \in DOMAIN ret : Priority(cap) <= Priority(other)]

----------------------------------------------------------------------------
(* C28: the copy failure of a raw reply *)

\* C28: when a value reply streams a raw value (no effective error) and the
\* copy fails with an I/O error, the failure is reported through the
\* classifier: after the bytes already written, a failure write with the
\* classified status and the JSON failure body is made, as for Serve and
\* Download. Violated: writeRaw discards the error of the copy.
C28_RawCopyFailureReported ==
    (RawReply /\ call.value.rerr # nil) =>
        LET e == toErrorResponse(call.value.rerr)
        IN  /\ writer.StatusCode = e.Status
            /\ writer.Body = call.value.data \o FailureBody(e.Status, e.Message)

----------------------------------------------------------------------------
(* Two calls in sequence on one Responder *)

\* the method of the Responder that the call record c names, applied to the
\* arguments c records
Invoke(w, req, c) ==
    CASE c.op = "Ok"           -> Ok(w, req, c.value, c.errs)
      [] c.op = "Created"      -> Created(w, req, c.value, c.errs)
      [] c.op = "Fail"         -> Fail(Head(c.errs))
      [] c.op = "NotFound"     -> NotFound(c.format, c.args)
      [] c.op = "Redirect"     -> Redirect(w, req, c.format, c.args)
      [] c.op = "Serve"        -> Serve(c.fileName, c.value, c.errs)
      [] c.op = "Download"     -> Download(c.fileName, c.value, c.errs)
      [] c.op = "HTML"         -> HTML(c.markup, c.errs)
      [] c.op = "HTMLTemplate" -> HTMLTemplate(c.htmlTemplate, c.value.s, c.errs)
      [] c.op = "NoContent"    -> NoContent(c.errs)

\* the reader of the tests whose Read fails with a 403
badReader == Custom({"Reader"}, <<>>, <<>>, <<Link(<<"bad monkey">>, "Status" :> 403)>>, <<>>, <<>>)

\* a reader that delivers its bytes
goodReader == Custom({"Reader", "Closer"}, <<>>, <<"B", "C">>, nil, <<>>, <<>>)

\* the calls a handler makes one after the other
SeqCalls ==
    { Call("Ok", StatusOK, StringValue(<<"hello">>), <<>>, <<>>, <<>>),
      Call("Ok", StatusOK, StructValue(42, <<"Bob">>), <<Errorf(<<"foo">>)>>, <<>>, <<>>),
      Call("Ok", StatusOK, Custom({"Redirector"}, <<"/">>, <<>>, nil, <<>>, <<>>), <<>>, <<>>, <<>>),
      Call("Ok", StatusOK, goodReader, <<>>, <<>>, <<>>),
      Call("Created", StatusCreated, StructValue(42, <<"Bob">>), <<>>, <<>>, <<>>),
      Call("Fail", 0, NilValue, <<<<Link(<<"moo">>, "Code" :> 401)>>>>, <<>>, <<>>),
      Call("NotFound", 0, NilValue, <<>>, <<"user not found: ", "%", "s">>, <<<<"x">>>>),
      Call("Redirect", 0, NilValue, <<>>, <<"/">>, <<>>),
      FileCall("Serve", <<"foo", ".", "txt">>, goodReader, <<>>),
      FileCall("Serve", <<"foo", ".", "txt">>, badReader, <<>>),
      FileCall("Download", <<"foo", ".", "txt">>, badReader, <<>>),
      [Call("HTML", 0, NilValue, <<>>, <<>>, <<>>) EXCEPT !.markup = <<"<p>", "hello", "</p>">>],
      [Call("HTMLTemplate", 0, StringValue(<<"Bob">>), <<>>, <<>>, <<>>)
           EXCEPT !.htmlTemplate = Template(<<"<p>", "{{ . }}", " is ", "{{ . }}", "</p>">>)],
      [Call("HTMLTemplate", 0, StringValue(<<"Bob">>), <<>>, <<>>, <<>>)
           EXCEPT !.htmlTemplate = Template(<<"<p>", "{{ .Foo }}", " is ", "{{ . }}", "</p>">>)],
      Call("NoContent", 0, NilValue, <<>>, <<>>, <<>>) }

\* the number of calls the handler makes on its Responder
CallsInSequence == 2

\* one call of the handler on its Responder
SeqCall ==
    /\ phase = "ready"
    /\ \E c \in SeqCalls : Responds(c, Invoke(writer, request, c))

\* the call has returned and the handler goes on to the next one, on the
\* same Responder: the Responder has no field that records the response
NextCall ==
    /\ phase = "responded"
    /\ Len(earlier) < CallsInSequence - 1
    /\ phase' = "ready"
    /\ earlier' = Append(earlier, [call |-> call, ops |-> ops])
    /\ ops' = <<>>
    /\ call' = NoCall
    /\ UNCHANGED <<request, writer, goroutines, sinks, pkg>>

NextSeq ==
    \/ SeqCall
    \/ NextCall

SpecSeq == Init /\ [][NextSeq]_vars

----------------------------------------------------------------------------
(* Two handlers running concurrently, each with its own sink and request *)

\* To as it would be if every Responder wrote to one shared sink
Responder_sharedWriter(w, req) == [writer |-> 1, request |-> req]

\* To(w, req): the Responder keeps the sink it was given (a reference, here
\* the index of the sink in sinks) and the request
Responder(w, req) == [writer |-> w, request |-> req]

Goroutines == {1, 2}

\* the calls of the concurrent handlers: those of SeqCalls and Fail(nil),
\* which reads errorResponseUnknown
ParCalls == SeqCalls \cup {Call("Fail", 0, NilValue, <<nil>>, <<>>, <<>>)}

\* a handler that has not made its call yet
Idle ==
    [state |-> "idle", responder |-> Responder(0, ""), call |-> NoCall,
     todo |-> <<>>, done |-> <<>>, overlapped |-> FALSE]

InitPar ==
    /\ phase = "ready"
    /\ request = "GET"
    /\ writer = newResponseWriter
    /\ ops = <<>>
    /\ call = NoCall
    /\ earlier = <<>>
    /\ pkg = [errorResponseUnknown |-> errorResponseUnknown]
    /\ goroutines = [g \in Goroutines |-> Idle]
    /\ sinks = [g \in Goroutines |-> newResponseWriter]

\* handler g makes its Responder of its own sink and request and enters its
\* call: todo is what the method will do to the Responder's sink
Go(g) ==
    /\ goroutines[g].state = "idle"
    /\ \E req \in Requests, c \in ParCalls :
           LET responder == Responder(g, req)
           IN  goroutines' = [goroutines EXCEPT ![g] =
                   [state |-> "running", responder |-> responder, call |-> c,
                    todo |-> Invoke(sinks[responder.writer], responder.request, c),
                    done |-> <<>>, overlapped |-> FALSE]]
    /\ UNCHANGED <<phase, request, writer, ops, call, earlier, sinks, pkg>>

\* the call of handler g performs its next operation on the sink of its
\* Responder; overlapped records that the other handler was in the middle
\* of its call
Step(g) ==
    /\ goroutines[g].state = "running"
    /\ LET me == goroutines[g]
           o  == Head(me.todo)
           midCall == \E h \in Goroutines \ {g} :
                          goroutines[h].state = "running" /\ goroutines[h].done # <<>>
       IN  /\ sinks' = [sinks EXCEPT ![me.responder.writer] = ApplyOp(@, o)]
           /\ goroutines' = [goroutines EXCEPT ![g] =
                  [me EXCEPT !.todo = Tail(me.todo),
                             !.done = Append(me.done, o),
                             !.state = IF Tail(me.todo) = <<>> THEN "done" ELSE "running",
                             !.overlapped = me.overlapped \/ midCall]]
    /\ UNCHANGED <<phase, request, writer, ops, call, earlier, pkg>>

NextPar ==
    \/ \E g \in Goroutines : Go(g)
    \/ \E g \in Goroutines : Step(g)

SpecPar == InitPar /\ [][NextPar]_vars

----------------------------------------------------------------------------
(* C23: nil sink, nil request (specification SpecNil) *)

Called == phase # "ready"

NilSinkCall    == Called /\ writer = nilWriter
NilRequestCall == Called /\ writer # nilWriter /\ request = nilRequest

\* the call writes a redirect: no effective error, a redirect entry point or
\* a value reply of a Redirector, and a target URL that is not empty
RedirectWrite ==
    /\ ~HasError(call.errs)
    /\ \/ call.op \in {"Redirect", "RedirectPermanent"}
       \/ call.op \in RedirectToFamily /\ call.value # NilValue
       \/ call.op \in ReplyFamily /\ IsRedirector(call.value)
    /\ RedirectTarget # <<>>

----------------------------------------------------------------------------
(* C30: two calls on the same Responder (specification SpecSeq) *)

\* the second call of the handler has returned
SecondCallReturned == phase = "responded" /\ Len(earlier) = 1

\* the operations of both calls, in call order
BothCallsOps == earlier[1].ops \o ops

\* the bytes the operations os write to the body
RECURSIVE BodyWritten(_)
BodyWritten(os) ==
    IF os = <<>> THEN <<>>
    ELSE (IF Head(os).op = "Write" THEN Head(os).val ELSE <<>>) \o BodyWritten(Tail(os))

\* C30: after two responder calls on the same Responder and sink the second
\* call was neither suppressed nor rejected: it performed the operations of
\* its method on the sink as the first call left it, the sink holds the
\* operations of both calls in call order, it saw two status writes, and its
\* body is the concatenation of both bodies. Violated when one of the calls
\* is a Serve, Download or HTMLTemplate that fails after its status write:
\* that call alone writes the status twice (C15).
C30_BothCallsWrite ==
    SecondCallReturned =>
        /\ ops = Invoke(Apply(newResponseWriter, earlier[1].ops), request, call)
        /\ ops # <<>>
        /\ writer = Apply(newResponseWriter, BothCallsOps)
        /\ Len(StatusWrites(BothCallsOps)) = 2
        /\ writer.Body = BodyWritten(earlier[1].ops) \o BodyWritten(ops)

----------------------------------------------------------------------------
(* C29: concurrent calls on different sinks (specification SpecPar) *)

\* what the call of handler g produces when it runs alone on a fresh sink
RunAlone(g) ==
    Apply(newResponseWriter,
          Invoke(newResponseWriter, goroutines[g].responder.request, goroutines[g].call))

\* C29: two responder calls running concurrently against different
\* sink/request pairs are independent under every interleaving of their sink
\* operations: each sink holds the operations its own call has performed so
\* far and nothing else (no call writes to the other call's sink), when a
\* call has returned its sink's status, headers and body are those the call
\* produces when run alone, and the package variable errorResponseUnknown
\* keeps its value.
C29_ConcurrentCallsIndependent ==
    /\ pkg = [errorResponseUnknown |-> errorResponseUnknown]
    /\ \A g \in DOMAIN goroutines :
           /\ sinks[g] = Apply(newResponseWriter, goroutines[g].done)
           /\ goroutines[g].state = "done" => sinks[g] = RunAlone(g)

\* both calls have returned, each performed operations while the other was
\* in the middle of its call, and the sinks ended with different statuses
C29_Witness ==
    /\ goroutines # <<>>
    /\ \A g \in Goroutines : goroutines[g].state = "done" /\ goroutines[g].overlapped
    /\ goroutines[1].call.op = "NotFound"
    /\ goroutines[2].call.op = "Ok"
    /\ sinks[1].StatusCode = 404
    /\ sinks[2].StatusCode = 200
    /\ sinks[1].Body # sinks[2].Body

====
